---- MODULE Spec2Model ----
(***************************************************************************)
(* A model of the hard core of Arcs: the CRDT count                         *)
(* (src/src/runtime/crdt/crdt-count.ts), the reference-mode store           *)
(* exercised by ReferenceModeStoreTest.kt, and the Recipe graph             *)
(* (src/runtime/ts/recipe/recipe.ts).                                       *)
(***************************************************************************)
EXTENDS Integers, Sequences, FiniteSets, TLC

\* ---------------------------------------------------------------- bounds

\* The largest version number an operation may name.
MaxVersion == 2
\* The largest value a generated MultiIncrement carries.
MaxValue == 1

Actors == {"a", "b"}
Replicas == {"X", "Y"}

\* ------------------------------------------------------- JavaScript Maps

\* A Map is a function on the set of its keys.
EmptyMap == [k \in {} |-> 0]

\* map.has(k)
Has(m, k) == k \in DOMAIN m

\* map.get(k) || 0
GetOr0(m, k) == IF k \in DOMAIN m THEN m[k] ELSE 0

\* map.set(k, v)
MapSet(m, k, v) == [x \in (DOMAIN m) \cup {k} |-> IF x = k THEN v ELSE m[x]]

\* The insertion order of a Map's keys after map.set(k, _).
KeysSet(keys, k) ==
  IF \E i \in 1..Len(keys) : keys[i] = k THEN keys ELSE Append(keys, k)

\* ------------------------------------------------------------ CRDTCount

\* private model: CountData = {values: new Map(), version: new Map()}
\* keys is the insertion order of the values Map, which merge iterates.
NewCount == [keys |-> <<>>, values |-> EmptyMap, version |-> EmptyMap]

\* CountOperation.newMultiIncrement(value, actor, from, to)
newMultiIncrement(value, actor, from, to) ==
  [type |-> "MultiIncrement", value |-> value, actor |-> actor,
   from |-> from, to |-> to]

\* A CountOperation of type Increment; newIncrement(actor, from) is the one
\* with to = from + 1.
IncrementOp(actor, from, to) ==
  [type |-> "Increment", actor |-> actor, from |-> from, to |-> to]

newIncrement(actor, from) == IncrementOp(actor, from, from + 1)

\* The operations the environment hands to applyOperation.
Ops ==
  { newMultiIncrement(v, a, f, t) :
      v \in (0 - 1)..MaxValue, a \in Actors,
      f \in 0..MaxVersion, t \in 0..MaxVersion }
  \cup
  { IncrementOp(a, f, t) :
      a \in Actors, f \in 0..MaxVersion, t \in 0..MaxVersion }

\* applyOperation without the check of version.to against version.from.
applyOperationAnyTo(m, op) ==
  IF op.from # GetOr0(m.version, op.actor)
  THEN [ok |-> FALSE, model |-> m]
  ELSE IF op.type = "MultiIncrement" /\ op.value < 0
  THEN [ok |-> FALSE, model |-> m]
  ELSE
    LET value == GetOr0(m.values, op.actor)
                   + (IF op.type = "MultiIncrement" THEN op.value ELSE 1)
    IN [ok |-> TRUE,
        model |-> [keys |-> KeysSet(m.keys, op.actor),
                   values |-> MapSet(m.values, op.actor, value),
                   version |-> MapSet(m.version, op.actor, op.to)]]

\* applyOperation setting the version before it looks at the value.
applyOperationEarlyVersion(m, op) ==
  IF op.from # GetOr0(m.version, op.actor)
  THEN [ok |-> FALSE, model |-> m]
  ELSE IF op.to <= op.from
  THEN [ok |-> FALSE, model |-> m]
  ELSE IF op.type = "MultiIncrement" /\ op.value < 0
  THEN [ok |-> FALSE,
        model |-> [m EXCEPT !.version = MapSet(m.version, op.actor, op.to)]]
  ELSE
    LET value == GetOr0(m.values, op.actor)
                   + (IF op.type = "MultiIncrement" THEN op.value ELSE 1)
    IN [ok |-> TRUE,
        model |-> [keys |-> KeysSet(m.keys, op.actor),
                   values |-> MapSet(m.values, op.actor, value),
                   version |-> MapSet(m.version, op.actor, op.to)]]

\* applyOperation without the check of a MultiIncrement's value.
applyOperationAnyValue(m, op) ==
  IF op.from # GetOr0(m.version, op.actor)
  THEN [ok |-> FALSE, model |-> m]
  ELSE IF op.to <= op.from
  THEN [ok |-> FALSE, model |-> m]
  ELSE
    LET value == GetOr0(m.values, op.actor)
                   + (IF op.type = "MultiIncrement" THEN op.value ELSE 1)
    IN [ok |-> TRUE,
        model |-> [keys |-> KeysSet(m.keys, op.actor),
                   values |-> MapSet(m.values, op.actor, value),
                   version |-> MapSet(m.version, op.actor, op.to)]]

\* CRDTCount.applyOperation: the model afterwards and the value returned.
applyOperation(m, op) ==
  IF op.from # GetOr0(m.version, op.actor)
  THEN [ok |-> FALSE, model |-> m]
  ELSE IF op.to <= op.from
  THEN [ok |-> FALSE, model |-> m]
  ELSE IF op.type = "MultiIncrement" /\ op.value < 0
  THEN [ok |-> FALSE, model |-> m]
  ELSE
    LET value == GetOr0(m.values, op.actor)
                   + (IF op.type = "MultiIncrement" THEN op.value ELSE 1)
    IN [ok |-> TRUE,
        model |-> [keys |-> KeysSet(m.keys, op.actor),
                   values |-> MapSet(m.values, op.actor, value),
                   version |-> MapSet(m.version, op.actor, op.to)]]

\* CRDTCount.getParticleView
RECURSIVE SumOver(_, _)
SumOver(m, S) ==
  IF S = {} THEN 0
  ELSE LET k == CHOOSE x \in S : TRUE IN m[k] + SumOver(m, S \ {k})

getParticleView(m) == SumOver(m.values, DOMAIN m.values)

\* The comparison of line 64 made strict.
OtherNewer(thisVersion, otherVersion) == otherVersion > thisVersion

\* The comparison of line 69 turned round.
ThisNotNewer(thisVersion, otherVersion) == thisVersion <= otherVersion

\* merge, line 64: this holds the larger value, yet other's version is not older.
OtherNotOlder(thisVersion, otherVersion) == otherVersion >= thisVersion

\* merge, line 69: other holds the larger value, yet this version is not older.
ThisNotOlder(thisVersion, otherVersion) == thisVersion >= otherVersion

\* The outcome of merge: whether it threw a CRDTError, this.model as the call
\* left it, and the two operation lists.
MergeResult(thrown, model, thisChanges, otherChanges) ==
  [thrown |-> thrown, model |-> model,
   modelChange |-> thisChanges, otherChange |-> otherChanges]

\* merge, lines 78-87: the loop over this.model.values.keys().
RECURSIVE mergeThisKeys(_, _, _, _, _)
mergeThisKeys(this, other, keys, thisChanges, otherChanges) ==
  IF keys = <<>>
  THEN MergeResult(FALSE, this, thisChanges, otherChanges)
  ELSE
    LET key == Head(keys) IN
    IF Has(other.values, key)
    THEN mergeThisKeys(this, other, Tail(keys), thisChanges, otherChanges)
    ELSE IF Has(other.version, key)
    THEN MergeResult(TRUE, this, thisChanges, otherChanges)
    ELSE mergeThisKeys(this, other, Tail(keys), thisChanges,
           Append(otherChanges,
                  newMultiIncrement(this.values[key], key, 0, this.version[key])))

\* merge, lines 58-76: the loop over otherRaw.values.keys(), followed by the
\* second loop.
RECURSIVE mergeOtherKeys(_, _, _, _, _)
mergeOtherKeys(this, other, keys, thisChanges, otherChanges) ==
  IF keys = <<>>
  THEN mergeThisKeys(this, other, this.keys, thisChanges, otherChanges)
  ELSE
    LET key == Head(keys)
        thisValue == GetOr0(this.values, key)
        otherValue == GetOr0(other.values, key)
        thisVersion == GetOr0(this.version, key)
        otherVersion == GetOr0(other.version, key)
    IN
    IF thisValue > otherValue
    THEN IF OtherNotOlder(thisVersion, otherVersion)
         THEN MergeResult(TRUE, this, thisChanges, otherChanges)
         ELSE mergeOtherKeys(this, other, Tail(keys), thisChanges,
                Append(otherChanges,
                       newMultiIncrement(thisValue - otherValue, key,
                                         otherVersion, thisVersion)))
    ELSE IF otherValue > thisValue
    THEN IF ThisNotOlder(thisVersion, otherVersion)
         THEN MergeResult(TRUE, this, thisChanges, otherChanges)
         ELSE mergeOtherKeys(
                [keys |-> KeysSet(this.keys, key),
                 values |-> MapSet(this.values, key, otherValue),
                 version |-> MapSet(this.version, key, otherVersion)],
                other, Tail(keys),
                Append(thisChanges,
                       newMultiIncrement(otherValue - thisValue, key,
                                         thisVersion, otherVersion)),
                otherChanges)
    ELSE mergeOtherKeys(this, other, Tail(keys), thisChanges, otherChanges)

\* CRDTCount.merge(other)
merge(this, other) == mergeOtherKeys(this, other, other.keys, <<>>, <<>>)

\* Applying a list of operations in order, as the tests do with otherChange:
\* the model afterwards and whether every applyOperation returned true.
RECURSIVE applyAll(_, _)
applyAll(m, ops) ==
  IF ops = <<>> THEN [ok |-> TRUE, model |-> m]
  ELSE LET r == applyOperation(m, Head(ops))
           rest == applyAll(r.model, Tail(ops))
       IN [ok |-> r.ok /\ rest.ok, model |-> rest.model]

\* getData() of two models compared as chai's deepEqual compares them: the
\* same entries in the values Maps and in the version Maps.
SameData(m1, m2) == m1.values = m2.values /\ m1.version = m2.version

\* CRDTCount.multiIncrementOp(value, actor)
multiIncrementOp(m, value, actor) ==
  LET from == GetOr0(m.version, actor)
  IN newMultiIncrement(value, actor, from, from + 1)

\* CRDTCount.incrementOp(actor)
incrementOp(m, actor) == newIncrement(actor, GetOr0(m.version, actor))

\* ------------------------------------------------- CRDTCount replicas

VARIABLES
  count,     \* count[r]: the CountData of replica r
  kept,      \* one operation that some replica accepted earlier, or none
  last,      \* the last call made on a CRDTCount and what it returned
  accepted   \* accepted[a]: the operations of actor a that X has accepted

countVars == <<count, kept, last, accepted>>

NoCall == [kind |-> "new"]
NoneKept == [kind |-> "none"]

InitCount ==
  /\ count = [r \in Replicas |-> NewCount]
  /\ kept = NoneKept
  /\ last = NoCall
  /\ accepted = [a \in Actors |-> 0]

\* r.applyOperation(op)
Apply(r, op) ==
  LET res == applyOperation(count[r], op) IN
  /\ count' = [count EXCEPT ![r] = res.model]
  /\ last' = [kind |-> "apply", who |-> r, op |-> op, ok |-> res.ok]

\* The operations that replica r accepts are counted.
Accept(r, op) ==
  accepted' = IF applyOperation(count[r], op).ok
              THEN [accepted EXCEPT ![op.actor] = @ + 1]
              ELSE accepted

\* An operation that replica X accepts may be remembered in kept, to be
\* delivered to X again later.
Remember(r, op) ==
  \/ kept' = kept
  \/ /\ r = "X"
     /\ kept = NoneKept
     /\ applyOperation(count[r], op).ok
     /\ kept' = [kind |-> "kept", who |-> r, op |-> op]

\* The operations a replica has seen: its versions added up. A replica builds
\* operations of its own while it has seen fewer than MaxVersion.
KnownOps(m) == SumOver(m.version, DOMAIN m.version)

\* r.applyOperation(r.incrementOp(actor))
Increment(r, actor) ==
  /\ KnownOps(count[r]) < MaxVersion
  /\ Apply(r, incrementOp(count[r], actor))
  /\ Remember(r, incrementOp(count[r], actor))

\* r.applyOperation(r.multiIncrementOp(value, actor))
MultiIncrement(r, value, actor) ==
  /\ KnownOps(count[r]) < MaxVersion
  /\ Apply(r, multiIncrementOp(count[r], value, actor))
  /\ Remember(r, multiIncrementOp(count[r], value, actor))

\* The remembered operation arrives at its replica a second time.
Redeliver ==
  /\ kept # NoneKept
  /\ LET res == applyOperation(count[kept.who], kept.op) IN
     /\ count' = [count EXCEPT ![kept.who] = res.model]
     /\ last' = [kind |-> "apply", who |-> kept.who, op |-> kept.op,
                 ok |-> res.ok]
     /\ kept' = kept

\* r.merge(s)
Merge(r, s) ==
  LET res == merge(count[r], count[s]) IN
  /\ count' = [count EXCEPT ![r] = res.model]
  /\ kept' = kept
  /\ last' = [kind |-> "merge", who |-> r, other |-> s, thrown |-> res.thrown,
              modelChange |-> res.modelChange,
              otherChange |-> res.otherChange]

\* After r.merge(s) has returned, the caller applies otherChange to s.
ApplyOtherChange ==
  /\ last.kind = "merge"
  /\ ~last.thrown
  /\ LET s == last.other
         res == applyAll(count[s], last.otherChange)
     IN /\ count' = [count EXCEPT ![s] = res.model]
        /\ kept' = kept
        /\ last' = [kind |-> "exchange", who |-> last.who, other |-> s,
                    ok |-> res.ok]

\* ====================================================================
\* Recipe (src/runtime/ts/recipe/recipe.ts)
\*
\* Particles, handles and slots are objects with identity: the model names
\* them by small numbers and keeps their fields in pnodes, hnodes and snodes.
\* Names, ids, verbs and patterns are strings in the code; the model writes
\* them as small numbers whose order stands for the order of the strings.
\* Null (0) stands for null/undefined.

MaxParticles == 2
MaxHandles == 2
MaxSlots == 1
MaxConstraints == 1
MaxVerbs == 2

Null == 0
Names == {1, 2}
Fates == {"?", "use"}
ParticleIds == 1..MaxParticles
HandleIds == 1..MaxHandles
SlotIds == 1..MaxSlots

Range(s) == {s[i] : i \in 1..Len(s)}

\* Array.prototype.indexOf, 1-based; 0 stands for -1.
IndexOf(s, x) ==
  IF x \in Range(s) THEN CHOOSE i \in 1..Len(s) :
                           s[i] = x /\ \A j \in 1..(i - 1) : s[j] # x
  ELSE 0

\* Array.prototype.splice(idx, 1)
Splice(s, idx) == SubSeq(s, 1, idx - 1) \o SubSeq(s, idx + 1, Len(s))

\* Array.prototype.filter
RECURSIVE Filter(_, _)
Filter(s, keep) ==
  IF s = <<>> THEN <<>>
  ELSE (IF Head(s) \in keep THEN <<Head(s)>> ELSE <<>>)
       \o Filter(Tail(s), keep)

\* Array.prototype.sort with a comparator that compares key[x]: elements
\* that compare equal keep their order.
RECURSIVE InsertByKey(_, _, _)
InsertByKey(s, x, key) ==
  IF s = <<>> THEN <<x>>
  ELSE IF key[x] < key[Head(s)] THEN <<x>> \o s
  ELSE <<Head(s)>> \o InsertByKey(Tail(s), x, key)

RECURSIVE SortByKey(_, _)
SortByKey(s, key) ==
  IF s = <<>> THEN <<>>
  ELSE InsertByKey(SortByKey(SubSeq(s, 1, Len(s) - 1), key), s[Len(s)], key)

\* The order in which a loop that skips what a seen-Set already holds
\* pushes the elements of s.
RECURSIVE FirstSeen(_, _)

\* The same loop without the seen-Set: every element is pushed.
FirstSeenOrNot(s, seen) == s

FirstSeen(s, seen) ==
  IF s = <<>> THEN <<>>
  ELSE IF Head(s) \in seen THEN FirstSeen(Tail(s), seen)
  ELSE <<Head(s)>> \o FirstSeen(Tail(s), seen \cup {Head(s)})

\* The lists of length at most n over the set S.
RECURSIVE SeqsUpTo(_, _)
SeqsUpTo(S, n) ==
  IF n = 0 THEN {<<>>}
  ELSE SeqsUpTo(S, n - 1)
       \cup {Append(s, x) : s \in {t \in SeqsUpTo(S, n - 1) : Len(t) = n - 1},
                            x \in S}

\* The smallest number of 1..max that names no object of used.
FreshId(used, max) ==
  CHOOSE i \in 1..max : i \notin used /\ \A j \in 1..(i - 1) : j \in used

\* ------------------------------------------------------------ the nodes

\* new Particle(recipe, name)
NewParticleNode(name) ==
  [name |-> name, connections |-> <<>>, consumedSlotConnections |-> <<>>]

\* new Handle(recipe)
NewHandleNode == [id |-> Null, fate |-> "?"]

\* new Slot(recipe, name)
NewSlotNode(name) == [name |-> name, id |-> Null]

\* A name of no object.
NoParticleNode == NewParticleNode(Null)
NoSlotNode == NewSlotNode(Null)

\* new ConnectionConstraint(from, to, direction, type)
newConstraint(from, to, direction, type) ==
  [from |-> from, to |-> to, direction |-> direction, type |-> type]

\* new Search(phrase): every token of the phrase is unresolved.
newSearch(phrase) == [phrase |-> phrase, unresolved |-> TRUE]

\* _search = null
NoSearch == [phrase |-> Null, unresolved |-> FALSE]

\* The fields of a new Recipe.
NewRecipe ==
  [name |-> Null, particles |-> <<>>, handles |-> <<>>, slots |-> <<>>,
   connectionConstraints |-> <<>>, obligations |-> <<>>,
   verbs |-> <<>>, patterns |-> <<>>, search |-> NoSearch,
   frozen |-> FALSE, frozenArrays |-> {}]

\* The heap a recipe lives in: the Recipe's own fields and the fields of
\* the particles, handles and slots by name.
NewHeap ==
  [recipe |-> NewRecipe,
   particles |-> [p \in ParticleIds |-> NoParticleNode],
   handles |-> [x \in HandleIds |-> NewHandleNode],
   slots |-> [s \in SlotIds |-> NoSlotNode]]

SetField(h, field, v) == [h EXCEPT !.recipe = [h.recipe EXCEPT ![field] = v]]

\* The concatenation of lists[x] for the x of the list xs, in order.
RECURSIVE ConcatOver(_, _)
ConcatOver(xs, lists) ==
  IF xs = <<>> THEN <<>>
  ELSE lists[Head(xs)] \o ConcatOver(Tail(xs), lists)

\* get handleConnections()
handleConnections(h) ==
  ConcatOver(h.recipe.particles,
             [p \in ParticleIds |-> h.particles[p].connections])

\* get slotConnections()
slotConnections(h) ==
  ConcatOver(h.recipe.particles,
             [p \in ParticleIds |-> h.particles[p].consumedSlotConnections])

\* handle.connections: the handle connections bound to the handle x.
ConnectionsOf(h, x) ==
  {c \in UNION {Range(h.particles[p].connections) : p \in ParticleIds} :
     c.handle = x}

\* slot.consumeConnections: the slot connections that consume the slot s.
ConsumersOf(h, s) ==
  {c \in UNION {Range(h.particles[p].consumedSlotConnections) :
                  p \in ParticleIds} : c.targetSlot = s}

\* Recipe._findDuplicate(items): TRUE when some item has a truthy id that an
\* earlier item of the list has too.
findDuplicate(items, nodes) ==
  \E i \in 1..Len(items), j \in 1..Len(items) :
    /\ i < j
    /\ nodes[items[i]].id # Null
    /\ nodes[items[i]].id = nodes[items[j]].id

\* Handle._isValid, Particle._isValid, Slot._isValid, and _isValid of the
\* two kinds of connection, and Search.isValid.
\* A connection carries what its _isValid answers; the other nodes are valid.
NodeIsValid(node) == IF "valid" \in DOMAIN node THEN node.valid ELSE TRUE
SearchIsValid(search) == search.phrase # Null

\* Recipe._isValid()
isValid(h) ==
  /\ ~findDuplicate(h.recipe.handles, h.handles)
  /\ ~findDuplicate(h.recipe.slots, h.slots)
  /\ \A x \in Range(h.recipe.handles) : NodeIsValid(h.handles[x])
  /\ \A p \in Range(h.recipe.particles) : NodeIsValid(h.particles[p])
  /\ \A s \in Range(h.recipe.slots) : NodeIsValid(h.slots[s])
  /\ \A c \in Range(handleConnections(h)) : NodeIsValid(c)
  /\ \A c \in Range(slotConnections(h)) : NodeIsValid(c)
  /\ (h.recipe.search = NoSearch \/ SearchIsValid(h.recipe.search))

\* isResolved() of the nodes: a handle has a fate, a connection is bound,
\* a search has no unresolved token.
HandleIsResolved(node) == node.fate # "?"
ParticleIsResolved(node) == node.name # Null
SlotIsResolved(node) == TRUE
ConnectionIsResolved(c) == c.handle # Null
SlotConnectionIsResolved(c) == c.targetSlot # Null
SearchIsResolved(search) == ~search.unresolved

isResolvedWithObligations(h) ==
  LET r == h.recipe IN
  IF ~r.frozen THEN [threw |-> TRUE, returned |-> FALSE]
  ELSE [threw |-> FALSE,
        returned |->
          /\ Len(r.connectionConstraints) = 0
          /\ (r.search = NoSearch \/ SearchIsResolved(r.search))
          /\ \A x \in Range(r.handles) : HandleIsResolved(h.handles[x])
          /\ \A c \in Range(handleConnections(h)) : ConnectionIsResolved(c)
          /\ \A c \in Range(slotConnections(h)) :
               SlotConnectionIsResolved(c)]

\* Recipe.isResolved(): whether the assert passes, and what is returned.
isResolved(h) ==
  LET r == h.recipe IN
  IF ~r.frozen THEN [threw |-> TRUE, returned |-> FALSE]
  ELSE IF Len(r.obligations) > 0 THEN [threw |-> FALSE, returned |-> FALSE]
  ELSE [threw |-> FALSE,
        returned |->
          /\ Len(r.connectionConstraints) = 0
          /\ (r.search = NoSearch \/ SearchIsResolved(r.search))
          /\ \A x \in Range(r.handles) : HandleIsResolved(h.handles[x])
          /\ \A p \in Range(r.particles) : ParticleIsResolved(h.particles[p])
          /\ \A s \in Range(r.slots) : SlotIsResolved(h.slots[s])
          /\ \A c \in Range(handleConnections(h)) : ConnectionIsResolved(c)
          /\ \A c \in Range(slotConnections(h)) :
               SlotConnectionIsResolved(c)]

\* compareComparables(a, b) compares the numbers these functions give the
\* two objects; null comes first.
ParticleKey(h) == [p \in ParticleIds |-> h.particles[p].name]
HandleKey(h) ==
  [x \in HandleIds \cup {Null} |->
     IF x = Null THEN 0
     ELSE 1 + 2 * h.handles[x].id + (IF h.handles[x].fate = "?" THEN 0 ELSE 1)]
SlotKey(h) == [s \in SlotIds |-> 10 * h.slots[s].name + h.slots[s].id]
ConnectionKey(h, cs) ==
  [c \in Range(cs) |->
     100 * ParticleKey(h)[c.particle] + 10 * c.name + HandleKey(h)[c.handle]]
SlotConnectionKey(h, cs) ==
  [c \in Range(cs) |-> 10 * ParticleKey(h)[c.particle] + c.name]
ConstraintKey(cs) == [c \in Range(cs) |-> 10 * c.from + c.to]
StringKey(ss) == [s \in Range(ss) |-> s]

\* The fields of the elements of a list.
ParticlesOf(cs) == [i \in 1..Len(cs) |-> cs[i].particle]
HandlesOf(cs) == [i \in 1..Len(cs) |-> cs[i].handle]
SlotsOf(cs) ==
  ConcatOver([i \in 1..Len(cs) |-> i],
             [i \in 1..Len(cs) |-> <<cs[i].targetSlot>> \o cs[i].providedSlots])

\* The four arrays that normalize() freezes besides the recipe itself.
FrozenArrays == {"particles", "handles", "slots", "connectionConstraints"}

normalizeAgain(h) ==
  IF ~isValid(h)
  THEN [returned |-> FALSE, error |-> "invalid", heap |-> h]
  ELSE [returned |-> TRUE, error |-> "",
        heap |-> [h EXCEPT !.recipe.frozen = TRUE,
                           !.recipe.frozenArrays = FrozenArrays]]

normalizeSortsFirst(h) ==
  LET sorted == [h EXCEPT !.recipe.verbs = SortByKey(@, StringKey(@))] IN
  IF h.recipe.frozen
  THEN [returned |-> FALSE, error |-> "already normalized", heap |-> h]
  ELSE IF ~isValid(h)
  THEN [returned |-> FALSE, error |-> "invalid", heap |-> sorted]
  ELSE [returned |-> TRUE, error |-> "",
        heap |-> [sorted EXCEPT !.recipe.frozen = TRUE,
                                !.recipe.frozenArrays = FrozenArrays]]

\* The connections in the order of their comparison, interfaces and all.
interfacesInPlace(connections) == connections

\* connections.filter(c => !c.type || !c.type.isInterface)
\*   .concat(connections.filter(c => !!c.type && !!c.type.isInterface))
interfacesLast(connections) ==
  LET plain == {c \in Range(connections) : ~c.isInterface}
      interfaces == {c \in Range(connections) : c.isInterface}
  IN Filter(connections, plain) \o Filter(connections, interfaces)

\* Recipe.normalize(options): what it returns, the error it records, and
\* the heap afterwards.
normalize(h) ==
  LET r == h.recipe IN
  IF r.frozen
  THEN [returned |-> FALSE, error |-> "already normalized", heap |-> h]
  ELSE IF ~isValid(h)
  THEN [returned |-> FALSE, error |-> "invalid", heap |-> h]
  ELSE
    LET cs == handleConnections(h)
        connections == SortByKey(cs, ConnectionKey(h, cs))
        scs == slotConnections(h)
        sortedSlotConnections == SortByKey(scs, SlotConnectionKey(h, scs))
        \* particle._finishNormalize(): the connections by name
        finished ==
          [p \in ParticleIds |->
             [h.particles[p] EXCEPT
                !.connections =
                  SortByKey(@, [c \in Range(@) |-> c.name]),
                !.consumedSlotConnections =
                  SortByKey(@, [c \in Range(@) |-> c.name])]]
        ordered == interfacesLast(connections)
        particles == FirstSeen(ParticlesOf(ordered), {})
        handles == FirstSeen(HandlesOf(ordered), {Null})
        slots == FirstSeen(SlotsOf(sortedSlotConnections), {Null})
        orphanedHandles ==
          SortByKey(Filter(r.handles, Range(r.handles) \ Range(handles)),
                    HandleKey(h))
        orphanedParticles ==
          SortByKey(Filter(r.particles,
                           Range(r.particles) \ Range(particles)),
                    ParticleKey(h))
        orphanedSlots ==
          SortByKey(Filter(r.slots, Range(r.slots) \ Range(slots)),
                    SlotKey(h))
    IN [returned |-> TRUE, error |-> "",
        heap |->
          [h EXCEPT
             !.particles = finished,
             !.recipe =
               [r EXCEPT
                  !.particles = particles \o orphanedParticles,
                  !.handles = handles \o orphanedHandles,
                  !.slots = slots \o orphanedSlots,
                  !.connectionConstraints =
                    SortByKey(@, ConstraintKey(@)),
                  !.verbs = SortByKey(@, StringKey(@)),
                  !.patterns = SortByKey(@, StringKey(@)),
                  !.frozenArrays = FrozenArrays,
                  !.frozen = TRUE]]]

\* ------------------------------------------------------ a recipe in use

VARIABLES
  heap,    \* the recipe and its nodes
  rlast    \* the last call made on the recipe and how it ended

recipeVars == <<heap, rlast>>

InitRecipe ==
  /\ heap = NewHeap
  /\ rlast = [call |-> "new", threw |-> FALSE, returned |-> TRUE]

\* The call throws (a TypeError of a frozen object, or a failed assert)
\* before it has changed anything.
Throws(call) ==
  /\ heap' = heap
  /\ rlast' = [call |-> call, threw |-> TRUE, returned |-> FALSE]

\* The call returns and leaves the heap h behind.
Returns(call, h, value) ==
  /\ heap' = h
  /\ rlast' = [call |-> call, threw |-> FALSE, returned |-> value]

\* this._<field>.push(x): a frozen array throws.
PushTo(call, field, x) ==
  IF field \in heap.recipe.frozenArrays THEN Throws(call)
  ELSE Returns(call, SetField(heap, field, Append(heap.recipe[field], x)),
               TRUE)

\* idx = this._<field>.indexOf(x); assert(idx > -1);
\* this._<field>.splice(idx, 1)
SpliceFrom(call, field, x) ==
  LET idx == IndexOf(heap.recipe[field], x) IN
  IF idx = 0 \/ field \in heap.recipe.frozenArrays THEN Throws(call)
  ELSE Returns(call, SetField(heap, field, Splice(heap.recipe[field], idx)),
               TRUE)

\* this._<field> = v: a frozen recipe throws.
AssignTo(call, field, v) ==
  IF heap.recipe.frozen THEN Throws(call)
  ELSE Returns(call, SetField(heap, field, v), TRUE)

Full(field, max) ==
  /\ field \notin heap.recipe.frozenArrays
  /\ Len(heap.recipe[field]) >= max

\* recipe.newConnectionConstraint(from, to, direction)
NewConnectionConstraint(from, to, direction) ==
  /\ ~Full("connectionConstraints", MaxConstraints)
  /\ PushTo("newConnectionConstraint", "connectionConstraints",
            newConstraint(from, to, direction, "constraint"))

\* recipe.newObligation(from, to, direction)
NewObligation(from, to, direction) ==
  /\ ~Full("obligations", MaxConstraints)
  /\ PushTo("newObligation", "obligations",
            newConstraint(from, to, direction, "obligation"))

\* recipe.removeObligation(obligation)
RemoveObligation(obligation) ==
  SpliceFrom("removeObligation", "obligations", obligation)

\* recipe.removeConstraint(constraint)
RemoveConstraint(constraint) ==
  SpliceFrom("removeConstraint", "connectionConstraints", constraint)

\* recipe.clearConnectionConstraints()
ClearConnectionConstraints ==
  AssignTo("clearConnectionConstraints", "connectionConstraints", <<>>)

\* recipe.newParticle(name)
NewParticle(name) ==
  /\ ~Full("particles", MaxParticles)
  /\ IF "particles" \in heap.recipe.frozenArrays THEN Throws("newParticle")
     ELSE LET p == FreshId(Range(heap.recipe.particles), MaxParticles) IN
          Returns("newParticle",
                  [SetField(heap, "particles",
                            Append(heap.recipe.particles, p))
                     EXCEPT !.particles[p] = NewParticleNode(name)],
                  TRUE)

\* recipe.removeParticle(particle): the particle's slot connections are
\* removed once the particle has left the list.
RemoveParticle(particle) ==
  LET idx == IndexOf(heap.recipe.particles, particle) IN
  IF idx = 0 \/ "particles" \in heap.recipe.frozenArrays
  THEN Throws("removeParticle")
  ELSE Returns("removeParticle",
               [SetField(heap, "particles",
                         Splice(heap.recipe.particles, idx))
                  EXCEPT !.particles[particle] = NoParticleNode],
               TRUE)

\* recipe.newHandle()
NewHandle ==
  /\ ~Full("handles", MaxHandles)
  /\ IF "handles" \in heap.recipe.frozenArrays THEN Throws("newHandle")
     ELSE LET x == FreshId(Range(heap.recipe.handles), MaxHandles) IN
          Returns("newHandle",
                  [SetField(heap, "handles", Append(heap.recipe.handles, x))
                     EXCEPT !.handles[x] = NewHandleNode],
                  TRUE)

\* recipe.removeHandle(handle)
RemoveHandle(handle) ==
  LET idx == IndexOf(heap.recipe.handles, handle) IN
  IF \/ ConnectionsOf(heap, handle) # {}
     \/ idx = 0
     \/ "handles" \in heap.recipe.frozenArrays
  THEN Throws("removeHandle")
  ELSE Returns("removeHandle",
               [SetField(heap, "handles", Splice(heap.recipe.handles, idx))
                  EXCEPT !.handles[handle] = NewHandleNode],
               TRUE)

\* recipe.newSlot(name)
NewSlot(name) ==
  /\ ~Full("slots", MaxSlots)
  /\ IF "slots" \in heap.recipe.frozenArrays THEN Throws("newSlot")
     ELSE LET s == FreshId(Range(heap.recipe.slots), MaxSlots) IN
          Returns("newSlot",
                  [SetField(heap, "slots", Append(heap.recipe.slots, s))
                     EXCEPT !.slots[s] = NewSlotNode(name)],
                  TRUE)

\* recipe.removeSlot(slot)
RemoveSlot(slot) ==
  LET idx == IndexOf(heap.recipe.slots, slot) IN
  IF \/ ConsumersOf(heap, slot) # {}
     \/ idx = 0
     \/ "slots" \in heap.recipe.frozenArrays
  THEN Throws("removeSlot")
  ELSE Returns("removeSlot",
               [SetField(heap, "slots", Splice(heap.recipe.slots, idx))
                  EXCEPT !.slots[slot] = NoSlotNode],
               TRUE)

\* recipe.setSearchPhrase(phrase); Null stands for a phrase that is falsy.
SetSearchPhrase(phrase) ==
  IF heap.recipe.search # NoSearch THEN Throws("setSearchPhrase")
  ELSE IF phrase = Null THEN Returns("setSearchPhrase", heap, TRUE)
  ELSE AssignTo("setSearchPhrase", "search", newSearch(phrase))

\* recipe.search = search
SetSearch(search) == AssignTo("set search", "search", search)

\* recipe.verbs = verbs
SetVerbs(verbs) == AssignTo("set verbs", "verbs", verbs)

\* recipe.patterns = patterns
SetPatterns(patterns) == AssignTo("set patterns", "patterns", patterns)

\* recipe.particles = particles, recipe.handles = handles and
\* recipe.slots = slots, with another array of the same objects.
Reverse(s) == [i \in 1..Len(s) |-> s[Len(s) + 1 - i]]
SetParticles == AssignTo("set particles", "particles",
                         Reverse(heap.recipe.particles))
SetHandles == AssignTo("set handles", "handles",
                       Reverse(heap.recipe.handles))
SetSlots == AssignTo("set slots", "slots", Reverse(heap.recipe.slots))

\* recipe.normalize(options): errors is what the call writes into
\* options.errors, "" when nothing is written or no map is supplied.
Normalize(withErrors) ==
  LET res == normalize(heap) IN
  /\ heap' = res.heap
  /\ rlast' = [call |-> "normalize", threw |-> FALSE,
               returned |-> res.returned, options |-> withErrors,
               errors |-> IF withErrors THEN res.error ELSE ""]

\* recipe.isResolved()
IsResolved ==
  LET res == isResolved(heap) IN
  /\ heap' = heap
  /\ rlast' = [call |-> "isResolved", threw |-> res.threw,
               returned |-> res.returned]

\* What the code that builds a recipe does to the nodes before the recipe is
\* normalized: a handle gets its id and fate, a particle is connected to a
\* handle (or gets a connection that is still unbound).
MapHandle(x, id, fate) ==
  /\ ~heap.recipe.frozen
  /\ x \in Range(heap.recipe.handles)
  /\ heap' = [heap EXCEPT !.handles[x] = [id |-> id, fate |-> fate]]
  /\ rlast' = [call |-> "mapHandle", threw |-> FALSE, returned |-> TRUE]

ConnectToHandle(p, name, x, isInterface, valid) ==
  /\ ~heap.recipe.frozen
  /\ p \in Range(heap.recipe.particles)
  /\ x \in Range(heap.recipe.handles) \cup {Null}
  /\ \A c \in Range(heap.particles[p].connections) : c.name # name
  /\ heap' = [heap EXCEPT !.particles[p].connections =
                Append(@, [particle |-> p, name |-> name, handle |-> x,
                           isInterface |-> isInterface, valid |-> valid])]
  /\ rlast' = [call |-> "connectToHandle", threw |-> FALSE, returned |-> TRUE]

ConsumeSlot(p, name, s) ==
  /\ ~heap.recipe.frozen
  /\ p \in Range(heap.recipe.particles)
  /\ s \in Range(heap.recipe.slots) \cup {Null}
  /\ \A c \in Range(heap.particles[p].consumedSlotConnections) :
       c.name # name
  /\ heap' = [heap EXCEPT !.particles[p].consumedSlotConnections =
                Append(@, [particle |-> p, name |-> name, targetSlot |-> s,
                           providedSlots |-> <<>>])]
  /\ rlast' = [call |-> "consumeSlot", threw |-> FALSE, returned |-> TRUE]

Constraints == {newConstraint(1, 2, "->", "constraint")}
Obligations == {newConstraint(1, 2, "->", "obligation")}
Searches == {NoSearch, [phrase |-> 1, unresolved |-> FALSE]}
\* A Search object without a phrase, and one with an unresolved token.
EmptySearch == [phrase |-> Null, unresolved |-> TRUE]
AllSearches == Searches \cup {EmptySearch, newSearch(1)}
VerbLists ==
  {v \in SeqsUpTo(Names, MaxVerbs) :
     Len(v) \in {0, MaxVerbs} /\ Cardinality(Range(v)) = Len(v)}
PatternLists == SeqsUpTo({1}, 1)

\* A recipe that is built, normalized and then used.
RecipeStep ==
  \/ \E c \in Constraints :
       NewConnectionConstraint(c.from, c.to, c.direction)
  \/ \E c \in Obligations : NewObligation(c.from, c.to, c.direction)
  \/ \E c \in Obligations : RemoveObligation(c)
  \/ \E c \in Constraints : RemoveConstraint(c)
  \/ ClearConnectionConstraints
  \/ \E name \in Names : NewParticle(name)
  \/ \E p \in ParticleIds : RemoveParticle(p)
  \/ NewHandle
  \/ \E x \in HandleIds : RemoveHandle(x)
  \/ NewSlot(1)
  \/ \E s \in SlotIds : RemoveSlot(s)
  \/ \E phrase \in {Null, 1} : SetSearchPhrase(phrase)
  \/ \E search \in Searches : SetSearch(search)
  \/ \E verbs \in VerbLists : SetVerbs(verbs)
  \/ \E patterns \in PatternLists : SetPatterns(patterns)
  \/ SetParticles
  \/ SetHandles
  \/ SetSlots
  \/ Normalize(TRUE)
  \/ \E x \in HandleIds : MapHandle(x, 1, "use")

\* Particles that are connected to handles and slots, and then normalized.
WiringStep ==
  \/ \E name \in Names : NewParticle(name)
  \/ NewHandle
  \/ NewSlot(1)
  \/ \E x \in HandleIds, id \in {Null, 1}, fate \in Fates :
       MapHandle(x, id, fate)
  \/ \E p \in ParticleIds, x \in HandleIds \cup {Null},
        isInterface \in BOOLEAN :
       ConnectToHandle(p, 1, x, isInterface, TRUE)
  \/ \E p \in ParticleIds, s \in SlotIds \cup {Null} : ConsumeSlot(p, 1, s)
  \/ Normalize(TRUE)

\* A recipe that is built, valid or not, normalized with or without an
\* errors map, normalized again, and asked whether it is resolved.
NormalizeStep ==
  \/ \E name \in Names : NewParticle(name)
  \/ NewHandle
  \/ \E x \in HandleIds : MapHandle(x, 1, "use")
  \/ \E x \in {Null, 1}, valid \in BOOLEAN :
       ConnectToHandle(1, 1, x, FALSE, valid)
  \/ NewSlot(1)
  \/ \E s \in SlotIds \cup {Null} : ConsumeSlot(1, 1, s)
  \/ \E search \in {EmptySearch, newSearch(1)} : SetSearch(search)
  \/ \E c \in Obligations : NewObligation(c.from, c.to, c.direction)
  \/ \E c \in Constraints :
       NewConnectionConstraint(c.from, c.to, c.direction)
  \/ \E verbs \in VerbLists : SetVerbs(verbs)
  \/ \E withErrors \in BOOLEAN : Normalize(withErrors)
  \/ IsResolved

\* ====================================================================
\* ReferenceModeStore
\*
\* A store between a proxy and two drivers. The containerStore holds a
\* Reference per entity id; the backingStore holds one entity model per id.
\* A Reference and an entity model are written as the version vector they
\* carry; the data of the container is a map from ids to the version
\* vectors of the References.

MaxClock == 1

EntityIds == {"an-id", "another-id"}
StoreActors == {"me", "them"}
crdtKey == "me"

VersionMaps == {v \in [StoreActors -> 0..MaxClock] : v["them"] <= 1}
ZeroVersion == [a \in StoreActors |-> 0]

\* v is dominated by w
VLeq(v, w) == \A a \in StoreActors : v[a] <= w[a]

\* the least version vector that dominates both
VJoin(v, w) == [a \in StoreActors |-> IF v[a] >= w[a] THEN v[a] ELSE w[a]]

\* The data a container (or the whole backing store) can hold.
RefMaps ==
  UNION {[S -> VersionMaps \ {ZeroVersion}] : S \in SUBSET EntityIds}
NoRefs == [id \in {} |-> ZeroVersion]

\* The merge of two container models, or of two models of one entity.
MergeRefs(local, other) ==
  [id \in (DOMAIN local) \cup (DOMAIN other) |->
     IF id \notin DOMAIN other THEN local[id]
     ELSE IF id \notin DOMAIN local THEN other[id]
     ELSE VJoin(local[id], other[id])]

RefsLeq(d, e) ==
  /\ DOMAIN d \subseteq DOMAIN e
  /\ \A id \in DOMAIN d : VLeq(d[id], e[id])

\* A Reference can be dereferenced as soon as some backing model is there.
AnyBackingWillDo(ref, backing, id) == id \in DOMAIN backing

\* A Reference to id can be dereferenced: the backing store has a model of
\* the entity whose version vector dominates the Reference's.
Dereferenceable(ref, backing, id) ==
  /\ id \in DOMAIN backing
  /\ VLeq(ref, backing[id])

\* The Reference that waited stays in the queue when a later one arrives.
HoldPendingKeepsFirst(waiting, changedIds, container, backing) ==
  LET ids == {id \in (DOMAIN waiting) \cup changedIds :
                ~Dereferenceable(container[id], backing, id)}
  IN [id \in ids |->
        IF id \in DOMAIN waiting THEN waiting[id] ELSE container[id]]

\* The waiting queue after the container model has become container: the
\* References that waited and the References that are new or have changed
\* wait, unless they can be dereferenced; a Reference that has changed
\* takes the place of the one that waited.
HoldPending(waiting, changedIds, container, backing) ==
  LET ids == {id \in (DOMAIN waiting) \cup changedIds :
                ~Dereferenceable(container[id], backing, id)}
  IN [id \in ids |-> container[id]]

\* The waiting queue after the entity id has arrived: its Reference leaves
\* the queue once it can be dereferenced.
ReleasePending(waiting, backing, id) ==
  LET ids == {x \in DOMAIN waiting :
                x # id \/ ~Dereferenceable(waiting[x], backing, x)}
  IN [x \in ids |-> waiting[x]]

\* The model a proxy is sent: per id the Reference and the entity it
\* points to.
Materialize(container, backing) ==
  [id \in DOMAIN container |->
     [reference |-> container[id],
      entity |-> IF id \in DOMAIN backing THEN backing[id] ELSE ZeroVersion,
      present |-> id \in DOMAIN backing]]

\* An update goes to the proxy as soon as the container has changed.
EmitAtOnce(changed, pendingAfter, container, backing) ==
  IF changed
  THEN <<[type |-> "ModelUpdate", model |-> Materialize(container, backing)]>>
  ELSE <<>>

\* The ModelUpdates one step sends to the proxy: one update with the whole
\* model once nothing that was received waits for its entity any more.
Emission(changed, pendingAfter, container, backing) ==
  IF changed /\ DOMAIN pendingAfter = {}
  THEN <<[type |-> "ModelUpdate", model |-> Materialize(container, backing)]>>
  ELSE <<>>

\* MockDriver.send(data, version)
send(failing) == ~failing

\* The store never writes after a merge: a write the driver refused is lost.
NoRetry(awaiting, merged, received) == FALSE

\* Whether the store writes to the driver after a merge: it still owes the
\* driver a write, or the merge has left it with more than the driver sent.
NeedsSend(awaiting, merged, received) == awaiting \/ merged # received

VARIABLES
  containerModel,  \* the local model of the containerStore
  backingModels,   \* the local models of the backingStore, by entity id
  pending,         \* the References that wait for their entity, by id
  held,            \* TRUE while a container update waits to be sent up
  emitted,         \* the messages the last step sent to the proxy callback
  driverData,      \* the data the container's driver holds
  fail,            \* MockDriver.fail
  storeState,      \* "Idle", or "AwaitingDriverModel" after a failed send
  sentData,        \* what the last step sent to the container's driver
  rmsLast          \* the last message the store handled

rmsVars == <<containerModel, backingModels, pending, held, emitted,
             driverData, fail, storeState, sentData, rmsLast>>

InitRMS ==
  /\ containerModel = NoRefs
  /\ backingModels = NoRefs
  /\ pending = NoRefs
  /\ held = FALSE
  /\ emitted = <<>>
  /\ driverData = NoRefs
  /\ fail = FALSE
  /\ storeState = "Idle"
  /\ sentData = <<>>
  /\ rmsLast = [from |-> "none"]

\* The store tells the proxy, or keeps the update back while References
\* wait: what is emitted and whether an update is held.
Notify(changed, waiting, container, backing) ==
  LET due == changed \/ held IN
  /\ pending' = waiting
  /\ emitted' = Emission(due, waiting, container, backing)
  /\ held' = (due /\ DOMAIN waiting # {})

\* The store writes its container model to the driver.
SendToDriver(data) ==
  /\ sentData' = <<data>>
  /\ IF send(fail)
     THEN storeState' = "Idle" /\ driverData' = data
     ELSE storeState' = "AwaitingDriverModel" /\ driverData' = driverData

\* containerStore.onReceive(data, version): the driver of the container
\* delivers its data.
ContainerReceive(data) ==
  LET merged == MergeRefs(containerModel, data)
      changedIds == {id \in DOMAIN merged :
                       \/ id \notin DOMAIN containerModel
                       \/ merged[id] # containerModel[id]}
  IN
  /\ containerModel' = merged
  /\ backingModels' = backingModels
  /\ Notify(changedIds # {},
            HoldPending(pending, changedIds, merged, backingModels),
            merged, backingModels)
  /\ IF NeedsSend(storeState = "AwaitingDriverModel", merged, data)
     THEN SendToDriver(merged)
     ELSE /\ sentData' = <<>>
          /\ storeState' = "Idle"
          /\ driverData' = data
  /\ fail' = fail
  /\ rmsLast' = [from |-> "container", data |-> data,
                 awaiting |-> storeState = "AwaitingDriverModel"]

\* backingStore.stores[id].onReceive(data, version): the driver of one
\* entity delivers its model.
BackingReceive(id, version) ==
  LET model == IF id \in DOMAIN backingModels
               THEN VJoin(backingModels[id], version) ELSE version
      backing == [x \in (DOMAIN backingModels) \cup {id} |->
                    IF x = id THEN model ELSE backingModels[x]]
  IN /\ backingModels' = backing
     /\ containerModel' = containerModel
     /\ Notify(FALSE, ReleasePending(pending, backing, id),
               containerModel, backing)
     /\ UNCHANGED <<driverData, fail, storeState>>
     /\ sentData' = <<>>
     /\ rmsLast' = [from |-> "backing", id |-> id,
                    waited |-> DOMAIN pending]

\* The Reference carries the version of the proxy's own actor instead of
\* the version the store wrote the entity with.
ProxyWriteForeignVersion(id) ==
  LET old == IF id \in DOMAIN backingModels THEN backingModels[id]
             ELSE ZeroVersion
      version == [old EXCEPT ![crdtKey] = @ + 1]
      foreign == [old EXCEPT !["them"] = 1]
      backing == [x \in (DOMAIN backingModels) \cup {id} |->
                    IF x = id THEN version ELSE backingModels[x]]
      container == [x \in (DOMAIN containerModel) \cup {id} |->
                      IF x = id THEN foreign ELSE containerModel[x]]
  IN /\ old[crdtKey] < MaxClock
     /\ backingModels' = backing
     /\ containerModel' = container
     /\ Notify(FALSE, HoldPending(pending, {id}, container, backing),
               container, backing)
     /\ SendToDriver(container)
     /\ fail' = fail
     /\ rmsLast' = [from |-> "proxy", id |-> id]

\* onProxyMessage(ModelUpdate or Operations) that writes the entity id: the
\* entity goes to the backing store under the store's own actor, and a
\* Reference with the version of the write goes to the container, which
\* is written to its driver.
ProxyWrite(id) ==
  LET old == IF id \in DOMAIN backingModels THEN backingModels[id]
             ELSE ZeroVersion
      version == [old EXCEPT ![crdtKey] = @ + 1]
      backing == [x \in (DOMAIN backingModels) \cup {id} |->
                    IF x = id THEN version ELSE backingModels[x]]
      container == [x \in (DOMAIN containerModel) \cup {id} |->
                      IF x = id THEN version ELSE containerModel[x]]
  IN /\ old[crdtKey] < MaxClock
     /\ backingModels' = backing
     /\ containerModel' = container
     /\ Notify(FALSE, HoldPending(pending, {id}, container, backing),
               container, backing)
     /\ SendToDriver(container)
     /\ fail' = fail
     /\ rmsLast' = [from |-> "proxy", id |-> id]

\* The test sets MockDriver.fail.
SetFail(failing) ==
  /\ fail # failing
  /\ fail' = failing
  /\ rmsLast' = [from |-> "test"]
  /\ UNCHANGED <<containerModel, backingModels, pending, held, emitted,
                 driverData, storeState, sentData>>

\* ---- proxies, their callbacks, and idle()

MaxCallbacks == 2

VARIABLES
  callbacks,       \* the ids store.on(callback) has handed out
  lastSent,        \* MockDriver.sentData.last() of the container's driver
  superseded       \* by id, the References a later one has taken the
                   \* place of while they waited for their entity

proxyVars == <<callbacks, lastSent, superseded>>

InitProxy ==
  /\ callbacks = {}
  /\ lastSent = <<>>
  /\ superseded = [id \in EntityIds |-> {}]

\* store.on(callback): the callback is registered under the next id.
On ==
  /\ Cardinality(callbacks) < MaxCallbacks
  /\ callbacks' = callbacks \cup {Cardinality(callbacks) + 1}
  /\ emitted' = <<>>
  /\ sentData' = <<>>
  /\ rmsLast' = [from |-> "on", id |-> Cardinality(callbacks) + 1]
  /\ UNCHANGED <<containerModel, backingModels, pending, held, driverData,
                 fail, storeState>>

\* The answer to a SyncRequest goes to every callback.
RespondToAll(i, model) == <<[type |-> "ModelUpdate", model |-> model]>>

\* The answer to SyncRequest(i): a ModelUpdate for the callback i.
Respond(i, model) ==
  <<[type |-> "ModelUpdate", model |-> model, to |-> i]>>

\* What the callback registered under j is called with, of the messages a
\* step has emitted: those addressed to j and those addressed to nobody.
DeliveredTo(j, messages) ==
  LET mine == SelectSeq(messages,
                        LAMBDA m : IF "to" \in DOMAIN m THEN m.to = j
                                   ELSE TRUE)
  IN [k \in 1..Len(mine) |-> [type |-> mine[k].type, model |-> mine[k].model]]

\* onProxyMessage(SyncRequest(i))
SyncRequest(i) ==
  /\ emitted' = Respond(i, Materialize(containerModel, backingModels))
  /\ sentData' = <<>>
  /\ rmsLast' = [from |-> "sync", id |-> i]
  /\ UNCHANGED <<containerModel, backingModels, pending, held, driverData,
                 fail, storeState, callbacks>>

\* idle() resolves all the time.
AlwaysIdle(state, waiting) == TRUE

\* Whether idle() resolves: no write to the driver is pending and no
\* Reference waits for its entity.
IsIdle(state, waiting) == state = "Idle" /\ DOMAIN waiting = {}

\* store.idle() resolves.
Idle ==
  /\ IsIdle(storeState, pending)
  /\ emitted' = <<>>
  /\ sentData' = <<>>
  /\ rmsLast' = [from |-> "idle"]
  /\ UNCHANGED <<containerModel, backingModels, pending, held, driverData,
                 fail, storeState>>

\* The proxy ids of the senders of Operations: the registered ones and
\* one that no callback is registered under.
ProxyIds == 1..(MaxCallbacks + 1)

\* The Operations are sent on to every callback, the sender's too.
ForwardAndEcho(i, id) == <<[type |-> "Operations", operations |-> <<id>>]>>

\* The Operations of the proxy i, sent on to every callback except the
\* one registered under i.
Forward(i, id) ==
  <<[type |-> "Operations", operations |-> <<id>>, except |-> i]>>

\* The Operations the callback registered under j is called with, of the
\* messages a step has emitted.
ForwardedTo(j, messages) ==
  LET mine == SelectSeq(messages,
                        LAMBDA m : /\ m.type = "Operations"
                                   /\ IF "except" \in DOMAIN m
                                      THEN m.except # j ELSE TRUE)
  IN [k \in 1..Len(mine) |-> mine[k].operations]

\* onProxyMessage(Operations(ops, i)), the operations writing the entity
\* id: the entity goes to the backing store and its Reference to the
\* container as for every write of a proxy, and the operations are sent
\* on to the callbacks.
OnOperations(i, id) ==
  LET old == IF id \in DOMAIN backingModels THEN backingModels[id]
             ELSE ZeroVersion
      version == [old EXCEPT ![crdtKey] = @ + 1]
      backing == [x \in (DOMAIN backingModels) \cup {id} |->
                    IF x = id THEN version ELSE backingModels[x]]
      container == [x \in (DOMAIN containerModel) \cup {id} |->
                      IF x = id THEN version ELSE containerModel[x]]
      waiting == HoldPending(pending, {id}, container, backing)
  IN /\ old[crdtKey] < MaxClock
     /\ backingModels' = backing
     /\ containerModel' = container
     /\ pending' = waiting
     /\ emitted' = Emission(held, waiting, container, backing)
                     \o Forward(i, id)
     /\ held' = (held /\ DOMAIN waiting # {})
     /\ SendToDriver(container)
     /\ fail' = fail
     /\ rmsLast' = [from |-> "operations", id |-> i, entity |-> id]
     /\ UNCHANGED callbacks

\* Proxies register and send Operations, the drivers deliver, and the
\* driver of the container fails now and then.
ForwardStep ==
  \/ On
  \/ \E i \in ProxyIds, id \in EntityIds : OnOperations(i, id)
  \/ \E i \in callbacks : SyncRequest(i)
  \/ (\E failing \in BOOLEAN : SetFail(failing)) /\ UNCHANGED callbacks

\* The References that a step has replaced in the waiting queue.
RecordSuperseded ==
  superseded' =
    [id \in EntityIds |->
       IF id \in DOMAIN pending /\ id \in DOMAIN pending'
          /\ pending'[id] # pending[id]
       THEN superseded[id] \cup {pending[id]}
       ELSE superseded[id]]

\* MockDriver.sentData grows by what a step sends.
RecordSent == lastSent' = IF sentData' # <<>> THEN sentData' ELSE lastSent

\* Proxies register, write and ask for the model.
SyncStep ==
  \/ On
  \/ \E i \in callbacks : SyncRequest(i)
  \/ (\E id \in EntityIds : ProxyWrite(id)) /\ UNCHANGED callbacks
  \/ (\E failing \in BOOLEAN : SetFail(failing)) /\ UNCHANGED callbacks

\* Container and backing data arrive from the drivers in any order.
HoldStep ==
  \/ \E data \in RefMaps : ContainerReceive(data)
  \/ \E id \in EntityIds, version \in VersionMaps \ {ZeroVersion} :
       BackingReceive(id, version)

\* What other stores have written to the driver of the container.
RemoteMaps == {d \in RefMaps : \A id \in DOMAIN d : d[id][crdtKey] = 0}

\* The proxy writes while the driver of the container fails now and then;
\* the driver delivers what it holds together with what others have written.
ResendStep ==
  \/ \E id \in EntityIds : ProxyWrite(id)
  \/ \E failing \in BOOLEAN : SetFail(failing)
  \/ \E remote \in RemoteMaps :
       ContainerReceive(MergeRefs(driverData, remote))

\* The proxy writes, the drivers deliver, the driver of the container
\* fails now and then, and the test waits for idle().
IdleStep ==
  \/ \E id \in EntityIds : ProxyWrite(id)
  \/ \E failing \in BOOLEAN : SetFail(failing)
  \/ \E remote \in RemoteMaps :
       ContainerReceive(MergeRefs(driverData, remote))
  \/ \E id \in EntityIds, version \in VersionMaps \ {ZeroVersion} :
       BackingReceive(id, version)
  \/ Idle

\* ====================================================================
\* ActiveStore: cloneFrom and the storage endpoint
\*
\* Three stores of Counts. A store has the mode it was constructed with and
\* a local model, an object of its own.

StoreIds == {"s1", "s2", "s3"}
StorageMode == {"Direct", "Backing", "ReferenceMode"}

\* serializeContents(): a copy of the data of the local model.
serializeContents(store) == store.data

\* cloneFrom without the assert on the modes.
cloneFromAnyMode(this, store) ==
  [threw |-> FALSE,
   messages |-> <<[type |-> "ModelUpdate",
                   model |-> serializeContents(store), id |-> 0]>>]

\* ActiveStore.cloneFrom(store): whether an assert fails, and the messages
\* handed to this.onProxyMessage.
cloneFrom(this, store) ==
  IF this.mode # store.mode
  THEN [threw |-> TRUE, messages |-> <<>>]
  ELSE [threw |-> FALSE,
        messages |-> <<[type |-> "ModelUpdate",
                        model |-> serializeContents(store), id |-> 0]>>]

\* onProxyMessage(ModelUpdate): the model of the message is merged into
\* the local model; a merge that throws leaves it as it was.
onModelUpdate(store, message) ==
  LET res == merge(store.data, message.model) IN
  IF res.thrown THEN store ELSE [store EXCEPT !.data = res.model]

VARIABLES
  stores,          \* the stores, by id: mode, local model object, its data
  storeLast        \* the last call made on a store

cloneVars == <<stores, storeLast>>

InitClone ==
  /\ stores = [s \in StoreIds |->
                 [mode |-> IF s = "s3" THEN "ReferenceMode" ELSE "Direct",
                  obj |-> s, data |-> NewCount]]
  /\ storeLast = [call |-> "new"]

\* onProxyMessage(Operations) with one increment of the actor.
StoreIncrement(s, actor) ==
  LET res == applyOperation(stores[s].data,
                            incrementOp(stores[s].data, actor)) IN
  /\ KnownOps(stores[s].data) < MaxVersion
  /\ stores' = [stores EXCEPT ![s].data = res.model]
  /\ storeLast' = [call |-> "increment", who |-> s]

\* stores[s].cloneFrom(stores[o])
CloneFrom(s, o) ==
  LET res == cloneFrom(stores[s], stores[o]) IN
  /\ stores' = [stores EXCEPT
                  ![s] = IF res.threw THEN @
                         ELSE onModelUpdate(@, res.messages[1])]
  /\ storeLast' = [call |-> "cloneFrom", who |-> s, other |-> o,
                   threw |-> res.threw, messages |-> res.messages]

CloneStep ==
  \/ \E s \in StoreIds, actor \in Actors : StoreIncrement(s, actor)
  \/ \E s \in StoreIds, o \in StoreIds : s # o /\ CloneFrom(s, o)

\* ---- the endpoint of one store
\*
\* store.onProxyMessage is async: a call runs up to the first point where
\* the handler waits (for the driver, for a backing store to be created),
\* and goes on when what it waits for is there.

MaxMessages == 3

SuspensionPoints == <<"driver", "backing">>

VARIABLES
  endpointId,      \* the id of getStorageEndpoint(), 0 while undefined
  sentCount,       \* the number of messages handed to the endpoint
  handlers,        \* by message: the id it carries and where its handler is
  completed        \* the messages in the order their handling completed

endpointVars == <<endpointId, sentCount, handlers, completed>>

InitEndpoint ==
  /\ endpointId = 0
  /\ sentCount = 0
  /\ handlers = <<>>
  /\ completed = <<>>

\* endpoint.setCallback(callback): id = store.on(callback)
SetCallback ==
  /\ endpointId = 0
  /\ endpointId' = 1
  /\ UNCHANGED <<sentCount, handlers, completed>>

\* endpoint.onProxyMessage(message): the message gets the id, and
\* store.onProxyMessage(message) is called and not awaited. at is the
\* number of the suspension point where the handler waits first, 0 when it
\* runs to its end at once.
EndpointOnProxyMessage(at) ==
  /\ sentCount < MaxMessages
  /\ sentCount' = sentCount + 1
  /\ handlers' = Append(handlers, [id |-> endpointId, at |-> at])
  /\ completed' = IF at = 0 THEN Append(completed, sentCount + 1)
                   ELSE completed
  /\ UNCHANGED endpointId

\* What the handler of message n waited for is there: the handler goes on
\* to the next point where it waits (next), or to its end (next = 0).
Resume(n, next) ==
  /\ n \in 1..Len(handlers)
  /\ handlers[n].at # 0
  /\ next = 0 \/ next > handlers[n].at
  /\ handlers' = [handlers EXCEPT ![n].at = next]
  /\ completed' = IF next = 0 THEN Append(completed, n) ELSE completed
  /\ UNCHANGED <<endpointId, sentCount>>

EndpointStep ==
  \/ SetCallback
  \/ \E at \in 0..Len(SuspensionPoints) : EndpointOnProxyMessage(at)
  \/ \E n \in 1..MaxMessages, next \in 0..Len(SuspensionPoints) :
       Resume(n, next)

\* ====================================================================
\* Refinement expressions
\*
\* An expression is a tree of BinaryExpression and UnaryExpression nodes
\* over field names, numbers and booleans. normalise() rewrites the tree;
\* Range.fromExpression turns a normalised expression over one Number
\* field into the list of segments where it holds.

MaxNumber == 2

\* enum Op, without MUL and DIV
BinaryOps == {"and", "or", "<", ">", "<=", ">=", "==", "!=", "+", "-"}
UnaryOps == {"not", "neg"}

\* operatorTable: the type of the arguments and of the result
operatorTable ==
  [op \in BinaryOps \cup UnaryOps |->
     CASE op \in {"and", "or", "not"} ->
            [argType |-> "Boolean", evalType |-> "Boolean"]
       [] op \in {"<", ">", "<=", ">="} ->
            [argType |-> "Number", evalType |-> "Boolean"]
       [] op \in {"+", "-", "neg"} ->
            [argType |-> "Number", evalType |-> "Number"]
       [] OTHER -> [argType |-> "same", evalType |-> "Boolean"]]

\* operatorTable[op].evalFn(e)
evalFn(op, e) ==
  CASE op = "and" -> e[1] /\ e[2]
    [] op = "or" -> e[1] \/ e[2]
    [] op = "<" -> e[1] < e[2]
    [] op = ">" -> e[1] > e[2]
    [] op = "<=" -> e[1] <= e[2]
    [] op = ">=" -> e[1] >= e[2]
    [] op = "+" -> e[1] + e[2]
    [] op = "-" -> e[1] - e[2]
    [] op = "not" -> ~e[1]
    [] op = "neg" -> 0 - e[1]
    [] op = "==" -> e[1] = e[2]
    [] op = "!=" -> e[1] # e[2]

\* The nodes of an expression.
FieldNamePrimitive(value, type) ==
  [kind |-> "field", name |-> value, type |-> type]
NumberPrimitive(value) == [kind |-> "number", num |-> value]
BooleanPrimitive(value) == [kind |-> "boolean", bool |-> value]
BinaryExpression(op, leftExpr, rightExpr) ==
  [kind |-> "binary", op |-> op, leftExpr |-> leftExpr,
   rightExpr |-> rightExpr]
UnaryExpression(op, expr) == [kind |-> "unary", op |-> op, expr |-> expr]

\* expression.evalType
evalType(e) ==
  CASE e.kind = "field" -> e.type
    [] e.kind = "number" -> "Number"
    [] e.kind = "boolean" -> "Boolean"
    [] OTHER -> operatorTable[e.op].evalType

\* RefinementOperator.validateOperandCompatibility(operandTypes): TRUE when
\* it does not throw.
validateOperandCompatibility(op, operandTypes) ==
  IF operatorTable[op].argType = "same"
  THEN operandTypes[1] = operandTypes[2]
  ELSE \A i \in 1..Len(operandTypes) :
         operandTypes[i] = operatorTable[op].argType

\* applyOperator(data): the value of an expression, data giving the values
\* of the fields.
RECURSIVE applyOperator(_, _)
applyOperator(e, data) ==
  CASE e.kind = "field" -> data[e.name]
    [] e.kind = "number" -> e.num
    [] e.kind = "boolean" -> e.bool
    [] e.kind = "binary" ->
         evalFn(e.op, <<applyOperator(e.leftExpr, data),
                        applyOperator(e.rightExpr, data)>>)
    [] e.kind = "unary" -> evalFn(e.op, <<applyOperator(e.expr, data)>>)

\* BinaryExpression.swapChildren()
swapChildren(e) ==
  BinaryExpression(CASE e.op = "<" -> ">"
                     [] e.op = ">" -> "<"
                     [] e.op = "<=" -> ">="
                     [] e.op = ">=" -> "<="
                     [] OTHER -> e.op,
                   e.rightExpr, e.leftExpr)

\* simplifyPrimitive() returns null
NoExpression == [kind |-> "null"]

\* The value of a node over primitives as a primitive.
Primitive(e) ==
  IF evalType(e) = "Boolean"
  THEN BooleanPrimitive(applyOperator(e, <<>>))
  ELSE NumberPrimitive(applyOperator(e, <<>>))

\* BinaryExpression.simplifyPrimitive() and UnaryExpression.simplifyPrimitive()
simplifyPrimitive(e) ==
  IF e.kind = "binary"
  THEN IF \/ e.leftExpr.kind = "boolean" /\ e.rightExpr.kind = "boolean"
          \/ e.leftExpr.kind = "number" /\ e.rightExpr.kind = "number"
       THEN Primitive(e)
       ELSE NoExpression
  ELSE IF \/ e.expr.kind = "boolean" /\ e.op = "not"
          \/ e.expr.kind = "number" /\ e.op = "neg"
       THEN Primitive(e)
       ELSE NoExpression

\* The rules of BinaryExpression.normalise() for AND and OR with a boolean.
simplifyBoolean(e) ==
  IF e.op = "and"
  THEN IF e.leftExpr.kind = "boolean"
       THEN (IF e.leftExpr.bool THEN e.rightExpr ELSE e.leftExpr)
       ELSE IF e.rightExpr.kind = "boolean"
       THEN (IF e.rightExpr.bool THEN e.leftExpr ELSE e.rightExpr)
       ELSE e
  ELSE IF e.op = "or"
  THEN IF e.leftExpr.kind = "boolean"
       THEN (IF e.leftExpr.bool THEN e.leftExpr ELSE e.rightExpr)
       ELSE IF e.rightExpr.kind = "boolean"
       THEN (IF e.rightExpr.bool THEN e.rightExpr ELSE e.leftExpr)
       ELSE e
  ELSE e

\* RefinementExpression.normalise(), BinaryExpression.normalise() and
\* UnaryExpression.normalise()
RECURSIVE normalise(_)

\* normalise() with a rule for NOT NOT that removes one NOT only.
normaliseKeepsNot(e) ==
  IF e.kind = "binary"
  THEN LET this == BinaryExpression(e.op, normalise(e.leftExpr),
                                    normalise(e.rightExpr))
           sp == simplifyPrimitive(this)
       IN IF sp # NoExpression THEN sp
          ELSE IF this.rightExpr.kind = "field"
          THEN simplifyBoolean(swapChildren(this))
          ELSE simplifyBoolean(this)
  ELSE IF e.kind = "unary"
  THEN LET this == UnaryExpression(e.op, normalise(e.expr))
           sp == simplifyPrimitive(this)
       IN IF sp # NoExpression THEN sp
          ELSE IF /\ this.op = "not"
                  /\ this.expr.kind = "unary"
                  /\ this.expr.op = "not"
          THEN this.expr
          ELSE this
  ELSE e

normalise(e) ==
  IF e.kind = "binary"
  THEN LET this == BinaryExpression(e.op, normalise(e.leftExpr),
                                    normalise(e.rightExpr))
           sp == simplifyPrimitive(this)
       IN IF sp # NoExpression THEN sp
          ELSE IF this.rightExpr.kind = "field"
          THEN simplifyBoolean(swapChildren(this))
          ELSE simplifyBoolean(this)
  ELSE IF e.kind = "unary"
  THEN LET this == UnaryExpression(e.op, normalise(e.expr))
           sp == simplifyPrimitive(this)
       IN IF sp # NoExpression THEN sp
          ELSE IF /\ this.op = "not"
                  /\ this.expr.kind = "unary"
                  /\ this.expr.op = "not"
          THEN this.expr.expr
          ELSE this
  ELSE e

\* The expressions of the model: the trees of up to two levels of
\* operators that the constructors accept, and their negations.
Leaves ==
  {FieldNamePrimitive("x", "Number")}
    \cup {NumberPrimitive(n) : n \in 1..MaxNumber}
    \cup {BooleanPrimitive(b) : b \in BOOLEAN}

Grow(S) ==
  S \cup {BinaryExpression(t[1], t[2], t[3]) :
            t \in {u \in BinaryOps \X S \X S :
                     validateOperandCompatibility(
                       u[1], <<evalType(u[2]), evalType(u[3])>>)}}
    \cup {UnaryExpression(t[1], t[2]) :
            t \in {u \in UnaryOps \X S :
                     validateOperandCompatibility(u[1], <<evalType(u[2])>>)}}

\* The negations of the Boolean expressions of S.
Negations(S) ==
  {UnaryExpression("not", e) : e \in {f \in S : evalType(f) = "Boolean"}}

Expressions == LET T == Grow(Grow(Leaves)) IN T \cup Negations(T)

\* ---- Segment and Range

\* Number.POSITIVE_INFINITY and Number.NEGATIVE_INFINITY, beyond every
\* number an expression of the model evaluates to
POSITIVE_INFINITY == 1000
NEGATIVE_INFINITY == 0 - POSITIVE_INFINITY

\* interface Boundary
Boundary(val, kind) == [val |-> val, kind |-> kind]

\* to.kind = to.kind === 'open' ? 'closed' : 'open'
Flipped(b) == Boundary(b.val, IF b.kind = "open" THEN "closed" ELSE "open")

\* Segment.isValid without the test for a zero width.
SegmentIsValidInOrder(from, to) == ~(to.val < from.val)

\* Segment.isValid(from, to)
SegmentIsValid(from, to) ==
  IF to.val < from.val THEN FALSE
  ELSE IF from.val = to.val /\ (from.kind = "open" \/ to.kind = "open")
  THEN FALSE
  ELSE TRUE

\* new Segment(from, to), where it does not throw
Segment(from, to) == [from |-> from, to |-> to]

closedClosed(from, to) ==
  Segment(Boundary(from, "closed"), Boundary(to, "closed"))
openOpen(from, to) == Segment(Boundary(from, "open"), Boundary(to, "open"))
closedOpen(from, to) ==
  Segment(Boundary(from, "closed"), Boundary(to, "open"))
openClosed(from, to) ==
  Segment(Boundary(from, "open"), Boundary(to, "closed"))

\* this.isLessThan(seg, strict)
isLessThan(this, seg, strict) ==
  IF this.to.val = seg.from.val
  THEN IF strict
       THEN this.to.kind = "open" \/ seg.from.kind = "open"
       ELSE this.to.kind = "open" /\ seg.from.kind = "open"
  ELSE this.to.val < seg.from.val

\* this.isGreaterThan(seg, strict)
isGreaterThan(this, seg, strict) ==
  IF this.from.val = seg.to.val
  THEN IF strict
       THEN this.from.kind = "open" \/ seg.to.kind = "open"
       ELSE this.from.kind = "open" /\ seg.to.kind = "open"
  ELSE this.from.val > seg.to.val

mergeableWith(this, seg) ==
  ~isLessThan(this, seg, FALSE) /\ ~isGreaterThan(this, seg, FALSE)

overlapsWith(this, seg) ==
  ~isLessThan(this, seg, TRUE) /\ ~isGreaterThan(this, seg, TRUE)

\* Segment.merge(a, b) of two segments that are mergeable
SegmentMerge(a, b) ==
  LET left == IF a.from.val = b.from.val
              THEN Boundary(a.from.val,
                            IF a.from.kind = b.from.kind THEN a.from.kind
                            ELSE "closed")
              ELSE IF a.from.val < b.from.val THEN a.from ELSE b.from
      right == IF a.to.val = b.to.val
               THEN Boundary(a.to.val,
                             IF a.to.kind = b.to.kind THEN a.to.kind
                             ELSE "closed")
               ELSE IF a.to.val > b.to.val THEN a.to ELSE b.to
  IN Segment(left, right)

\* Segment.overlap(a, b) of two segments that overlap
SegmentOverlap(a, b) ==
  LET left == IF a.from.val = b.from.val
              THEN Boundary(a.from.val,
                            IF a.from.kind = b.from.kind THEN a.from.kind
                            ELSE "open")
              ELSE IF a.from.val > b.from.val THEN a.from ELSE b.from
      right == IF a.to.val = b.to.val
               THEN Boundary(a.to.val,
                             IF a.to.kind = b.to.kind THEN a.to.kind
                             ELSE "open")
               ELSE IF a.to.val < b.to.val THEN a.to ELSE b.to
  IN Segment(left, right)

\* A Range is its list of segments; threw is TRUE when the computation of
\* the Range has thrown an Error.
NewRange == [threw |-> FALSE, segments |-> <<>>]
Thrown == [threw |-> TRUE, segments |-> <<>>]

\* unionWithSeg: the number of segments at the front that seg is greater
\* than, and the number at the back that seg is less than.
LeadCount(segs, seg) ==
  CHOOSE k \in 0..Len(segs) :
    /\ \A m \in 1..k : isGreaterThan(seg, segs[m], FALSE)
    /\ k = Len(segs) \/ ~isGreaterThan(seg, segs[k + 1], FALSE)

TrailCount(segs, seg) ==
  CHOOSE k \in 0..Len(segs) :
    /\ \A m \in (Len(segs) - k + 1)..Len(segs) : isLessThan(seg, segs[m], FALSE)
    /\ k = Len(segs) \/ ~isLessThan(seg, segs[Len(segs) - k], FALSE)

\* unionWithSeg that inserts seg after the segments it is greater than and
\* merges nothing.
unionWithSegInserts(range, seg) ==
  LET segs == range.segments
      i == LeadCount(segs, seg)
  IN IF range.threw THEN Thrown
     ELSE [threw |-> FALSE,
           segments |-> SubSeq(segs, 1, i) \o <<seg>>
                          \o SubSeq(segs, i + 1, Len(segs))]

\* range.unionWithSeg(seg)
unionWithSeg(range, seg) ==
  LET segs == range.segments
      i == LeadCount(segs, seg)
      j == Len(segs) - TrailCount(segs, seg)
      x == IF i < Len(segs)
           THEN IF mergeableWith(seg, segs[i + 1])
                THEN SegmentMerge(seg, segs[i + 1]).from
                ELSE IF segs[i + 1].from.val < seg.from.val
                THEN segs[i + 1].from
                ELSE seg.from
           ELSE seg.from
      y == IF j > 0
           THEN IF mergeableWith(seg, segs[j])
                THEN SegmentMerge(seg, segs[j]).to
                ELSE IF segs[j].to.val > seg.to.val
                THEN segs[j].to
                ELSE seg.to
           ELSE seg.to
      \* splice(i, j - i, ...) removes nothing when j - i is negative
      after == IF j > i THEN j ELSE i
  IN IF range.threw \/ ~SegmentIsValid(x, y) THEN Thrown
     ELSE [threw |-> FALSE,
           segments |-> SubSeq(segs, 1, i) \o <<Segment(x, y)>>
                          \o SubSeq(segs, after + 1, Len(segs))]

\* range.union(other), and new Range(segs) as the union of segs with the
\* empty Range
RECURSIVE unionWithSegs(_, _)
unionWithSegs(range, segs) ==
  IF segs = <<>> THEN range
  ELSE unionWithSegs(unionWithSeg(range, Head(segs)), Tail(segs))

union(range, other) ==
  IF other.threw THEN Thrown ELSE unionWithSegs(range, other.segments)

\* Range.copyOf(range)
copyOf(range) ==
  IF range.threw THEN Thrown ELSE unionWithSegs(NewRange, range.segments)

\* Range.infiniteRange()
infiniteRange ==
  unionWithSegs(NewRange, <<openOpen(NEGATIVE_INFINITY, POSITIVE_INFINITY)>>)

\* range.intersectWithSeg(seg)
RECURSIVE overlapsOf(_, _)
overlapsOf(segs, seg) ==
  IF segs = <<>> THEN <<>>
  ELSE (IF overlapsWith(Head(segs), seg)
        THEN <<SegmentOverlap(seg, Head(segs))>> ELSE <<>>)
         \o overlapsOf(Tail(segs), seg)

intersectWithSeg(range, seg) ==
  LET overlaps == overlapsOf(range.segments, seg) IN
  IF \/ range.threw
     \/ \E k \in 1..Len(overlaps) :
          ~SegmentIsValid(overlaps[k].from, overlaps[k].to)
  THEN Thrown
  ELSE [threw |-> FALSE, segments |-> overlaps]

\* range.intersect(other)
RECURSIVE intersectWithSegs(_, _, _)
intersectWithSegs(range, segs, newRange) ==
  IF segs = <<>> THEN newRange
  ELSE intersectWithSegs(
         range, Tail(segs),
         union(newRange, intersectWithSeg(copyOf(range), Head(segs))))

intersect(range, other) ==
  IF range.threw \/ other.threw THEN Thrown
  ELSE intersectWithSegs(range, other.segments, NewRange)

unionOf(range1, range2) == union(copyOf(range1), range2)

intersectionOf(range1, range2) == intersect(copyOf(range1), range2)

\* segment.equals(seg)
SegmentEquals(seg1, seg2) ==
  /\ seg1.from.kind = seg2.from.kind
  /\ seg1.from.val = seg2.from.val
  /\ seg1.to.kind = seg2.to.kind
  /\ seg1.to.val = seg2.to.val

\* range.equals(other)
equals(range, other) ==
  /\ Len(range.segments) = Len(other.segments)
  /\ \A i \in 1..Len(range.segments) :
       SegmentEquals(range.segments[i], other.segments[i])

\* A subset test that compares the numbers of segments only.
isSubsetOfByLength(range, other) ==
  Len(range.segments) = Len(intersectionOf(range, other).segments)

\* range.isSubsetOf(other)
isSubsetOf(range, other) == equals(range, intersectionOf(range, other))

\* Range.difference(range1, range2): the inner loop over the segments of
\* the intersection with one segment, from being where the next piece
\* starts; and the loop over the segments of range1.
RECURSIVE differencePieces(_, _, _)
differencePieces(from, isegs, to) ==
  IF isegs = <<>>
  THEN IF SegmentIsValid(from, to) THEN <<Segment(from, to)>> ELSE <<>>
  ELSE LET upTo == Flipped(Head(isegs).from) IN
       (IF SegmentIsValid(from, upTo) THEN <<Segment(from, upTo)>> ELSE <<>>)
         \o differencePieces(Flipped(Head(isegs).to), Tail(isegs), to)

RECURSIVE differenceOfSegs(_, _)
differenceOfSegs(segs, range2) ==
  IF segs = <<>> THEN NewRange
  ELSE LET seg == Head(segs)
           ntrsct == intersectWithSeg(copyOf(range2), seg)
           rest == differenceOfSegs(Tail(segs), range2)
       IN IF ntrsct.threw \/ rest.threw THEN Thrown
          ELSE [threw |-> FALSE,
                segments |->
                  differencePieces(seg.from, ntrsct.segments, seg.to)
                    \o rest.segments]

difference(range1, range2) ==
  IF range1.threw \/ range2.threw THEN Thrown
  ELSE differenceOfSegs(range1.segments, range2)

\* Range.complementOf(range)
complementOf(range) == difference(infiniteRange, range)

\* makeInitialGivenOp that leaves the value out of the range of >=.
makeInitialGivenOpOpen(op, val) ==
  CASE op = "<" ->
         unionWithSegs(NewRange, <<openOpen(NEGATIVE_INFINITY, val)>>)
    [] op = "<=" ->
         unionWithSegs(NewRange, <<openClosed(NEGATIVE_INFINITY, val)>>)
    [] op \in {">", ">="} ->
         unionWithSegs(NewRange, <<openOpen(val, POSITIVE_INFINITY)>>)
    [] op = "==" -> unionWithSegs(NewRange, <<closedClosed(val, val)>>)
    [] op = "!=" ->
         complementOf(unionWithSegs(NewRange, <<closedClosed(val, val)>>))
    [] OTHER -> Thrown

\* Range.makeInitialGivenOp(op, val)
makeInitialGivenOp(op, val) ==
  CASE op = "<" ->
         unionWithSegs(NewRange, <<openOpen(NEGATIVE_INFINITY, val)>>)
    [] op = "<=" ->
         unionWithSegs(NewRange, <<openClosed(NEGATIVE_INFINITY, val)>>)
    [] op = ">" ->
         unionWithSegs(NewRange, <<openOpen(val, POSITIVE_INFINITY)>>)
    [] op = ">=" ->
         unionWithSegs(NewRange, <<closedOpen(val, POSITIVE_INFINITY)>>)
    [] op = "==" -> unionWithSegs(NewRange, <<closedClosed(val, val)>>)
    [] op = "!=" ->
         complementOf(unionWithSegs(NewRange, <<closedClosed(val, val)>>))
    [] OTHER -> Thrown

\* Range.updateGivenOp(op, ranges)
updateGivenOp(op, ranges) ==
  CASE op = "and" -> intersectionOf(ranges[1], ranges[2])
    [] op = "or" -> unionOf(ranges[1], ranges[2])
    [] op = "==" ->
         LET lc == complementOf(ranges[1])
             rc == complementOf(ranges[2])
             lnr == intersectionOf(ranges[1], ranges[2])
             lcnrc == intersectionOf(lc, rc)
         IN unionOf(lnr, lcnrc)
    [] op = "!=" ->
         LET lc == complementOf(ranges[1])
             rc == complementOf(ranges[2])
             lnrc == intersectionOf(ranges[1], rc)
             lcnr == intersectionOf(lc, ranges[2])
         IN unionOf(lnrc, lcnr)
    [] op = "not" -> complementOf(ranges[1])
    [] OTHER -> Thrown

\* Range.fromExpression(expr)
RECURSIVE fromExpression(_)
fromExpression(expr) ==
  IF expr.kind = "binary"
  THEN IF expr.leftExpr.kind = "field" /\ expr.rightExpr.kind = "number"
       THEN makeInitialGivenOp(expr.op, expr.rightExpr.num)
       ELSE LET left == fromExpression(expr.leftExpr) IN
            IF left.threw THEN Thrown
            ELSE LET right == fromExpression(expr.rightExpr) IN
                 IF right.threw THEN Thrown
                 ELSE updateGivenOp(expr.op, <<left, right>>)
  ELSE IF expr.kind = "unary"
  THEN LET rg == fromExpression(expr.expr) IN
       IF rg.threw THEN Thrown ELSE updateGivenOp(expr.op, <<rg>>)
  ELSE Thrown

\* ---- a Refinement that is built, normalised, and turned into a Range

MaxPasses == 2

\* Range.fromExpression has not been called
NoRange == [threw |-> FALSE, segments |-> <<>>, called |-> FALSE]

VARIABLES
  parsed,          \* the expression as Refinement.fromAst built it
  refinement,      \* Refinement.expression
  passes,          \* the number of calls of Refinement.normalise()
  rangeOfParsed,   \* Range.fromExpression of the expression as built
  rangeOfNormal    \* Range.fromExpression of the normalised expression

refineVars == <<parsed, refinement, passes, rangeOfParsed, rangeOfNormal>>

\* new Refinement(): expression = null
InitRefine ==
  /\ parsed = NoExpression
  /\ refinement = NoExpression
  /\ passes = 0
  /\ rangeOfParsed = NoRange
  /\ rangeOfNormal = NoRange

\* Refinement.fromAst(ref, typeData)
FromAst(expression) ==
  /\ refinement' = expression
  /\ parsed' = expression
  /\ UNCHANGED <<passes, rangeOfParsed, rangeOfNormal>>

\* refinement.normalise()
Normalise ==
  /\ refinement # NoExpression
  /\ passes < MaxPasses
  /\ refinement' = normalise(refinement)
  /\ passes' = passes + 1
  /\ UNCHANGED <<parsed, rangeOfParsed, rangeOfNormal>>

\* Range.fromExpression(refinement.expression)
FromExpression ==
  /\ refinement # NoExpression
  /\ IF passes = 0
     THEN /\ rangeOfParsed = NoRange
          /\ rangeOfParsed' = fromExpression(refinement)
          /\ rangeOfNormal' = rangeOfNormal
     ELSE /\ rangeOfNormal = NoRange
          /\ rangeOfNormal' = fromExpression(refinement)
          /\ rangeOfParsed' = rangeOfParsed
  /\ UNCHANGED <<parsed, refinement, passes>>

\* A refinement that is normalised again and again.
NormaliseStep ==
  \/ /\ refinement = NoExpression
     /\ \E expression \in Expressions : FromAst(expression)
  \/ Normalise

\* A refinement whose Range is derived before and after it is normalised.
RangeStep ==
  \/ /\ refinement = NoExpression
     /\ \E expression \in Expressions : FromAst(expression)
  \/ passes = 0 /\ Normalise
  \/ FromExpression

\* ---- Segments that are constructed and Ranges that are operated on

\* Range.validateSegments(segs) does not throw
validateSegments(segs) ==
  \A i \in 2..Len(segs) : isGreaterThan(segs[i], segs[i - 1], TRUE)

BoundaryKinds == {"open", "closed"}

\* The numbers a boundary is given
BoundaryValues == {NEGATIVE_INFINITY, POSITIVE_INFINITY} \cup (1..MaxNumber)

\* An infinite boundary is open, as in Range.infiniteRange() and
\* Range.makeInitialGivenOp()
Boundaries ==
  {Boundary(v, k) : v \in 1..MaxNumber, k \in BoundaryKinds}
    \cup {Boundary(v, "open") : v \in {NEGATIVE_INFINITY, POSITIVE_INFINITY}}

\* The segments that new Segment(from, to) constructs
Segments ==
  {Segment(b[1], b[2]) :
     b \in {c \in Boundaries \X Boundaries : SegmentIsValid(c[1], c[2])}}

\* The lists of segments given to new Range(segs)
SegmentLists ==
  {<<>>} \cup {<<a>> : a \in Segments} \cup (Segments \X Segments)

RangeIds == {"range1", "range2"}

VARIABLES
  made,        \* the last call of new Segment or of a Segment factory
  ranges,      \* two Range objects
  rangesLast   \* the last operation on a Range

rangesVars == <<made, ranges, rangesLast>>

InitRanges ==
  /\ made = [via |-> "none"]
  /\ ranges = [r \in RangeIds |-> NewRange]
  /\ rangesLast = [op |-> "none", threw |-> FALSE]

\* new Segment(from, to): throws when Segment.isValid(from, to) is false
NewSegment(from, to) ==
  /\ made' = [via |-> "constructor", from |-> from, to |-> to,
              threw |-> ~SegmentIsValid(from, to)]
  /\ UNCHANGED <<ranges, rangesLast>>

\* Segment.closedClosed, openOpen, closedOpen, openClosed(from, to)
SegmentFactory(via, from, to) ==
  LET seg == CASE via = "closedClosed" -> closedClosed(from, to)
               [] via = "openOpen" -> openOpen(from, to)
               [] via = "closedOpen" -> closedOpen(from, to)
               [] via = "openClosed" -> openClosed(from, to)
  IN /\ made' = [via |-> via, from |-> seg.from, to |-> seg.to,
                 threw |-> ~SegmentIsValid(seg.from, seg.to)]
     /\ UNCHANGED <<ranges, rangesLast>>

\* The Range r becomes result, unless the operation has thrown; args are
\* the Ranges or the expression the operation was given.
RangeBecomes(r, op, args, result) ==
  /\ ranges' = IF result.threw THEN ranges
               ELSE [ranges EXCEPT ![r] = result]
  /\ rangesLast' = [op |-> op, r |-> r, args |-> args,
                    threw |-> result.threw]
  /\ UNCHANGED made

\* ranges[r] = new Range(segs)
ConstructRange(r, segs) ==
  RangeBecomes(r, "new", <<>>, unionWithSegs(NewRange, segs))

\* ranges[r].unionWithSeg(seg)
UnionWithSeg(r, seg) ==
  RangeBecomes(r, "unionWithSeg", <<>>, unionWithSeg(ranges[r], seg))

\* ranges[r].intersectWithSeg(seg)
IntersectWithSeg(r, seg) ==
  RangeBecomes(r, "intersectWithSeg", <<>>, intersectWithSeg(ranges[r], seg))

\* ranges[r].union(ranges[o])
Union(r, o) == RangeBecomes(r, "union", <<o>>, union(ranges[r], ranges[o]))

\* ranges[r].intersect(ranges[o])
Intersect(r, o) ==
  RangeBecomes(r, "intersect", <<o>>, intersect(ranges[r], ranges[o]))

\* ranges[r] = Range.complementOf(ranges[o])
ComplementOf(r, o) ==
  RangeBecomes(r, "complementOf", <<o>>, complementOf(ranges[o]))

\* ranges[r] = Range.difference(ranges[o], ranges[p])
Difference(r, o, p) ==
  RangeBecomes(r, "difference", <<o, p>>, difference(ranges[o], ranges[p]))

\* ranges[r].isSubsetOf(ranges[o]); the intersection is taken of a copy.
IsSubsetOf(r, o) ==
  /\ rangesLast' = [op |-> "isSubsetOf", r |-> r, args |-> <<o>>,
                    threw |-> FALSE,
                    returned |-> isSubsetOf(ranges[r], ranges[o])]
  /\ UNCHANGED <<made, ranges>>

\* ranges[r] = Range.fromExpression(expr)
DeriveRange(r, expr) ==
  RangeBecomes(r, "fromExpression", <<expr>>, fromExpression(expr))

\* The normalised comparisons of the field with a number
Comparisons ==
  {BinaryExpression(op, FieldNamePrimitive("x", "Number"), NumberPrimitive(n)) :
     op \in {"<", ">", "<=", ">="}, n \in 1..MaxNumber}

\* Two comparisons joined by AND
Intervals ==
  {BinaryExpression("and", c[1], c[2]) : c \in Comparisons \X Comparisons}

\* A Range is derived from an expression and complemented.
IntervalStep ==
  \/ \E expr \in Intervals : DeriveRange("range1", expr)
  \/ \E r \in RangeIds : \E o \in RangeIds \ {r} : ComplementOf(r, o)

SegmentStep ==
  \/ \E from, to \in BoundaryValues, fromKind, toKind \in BoundaryKinds :
       NewSegment(Boundary(from, fromKind), Boundary(to, toKind))
  \/ \E via \in {"closedClosed", "openOpen", "closedOpen", "openClosed"},
        from, to \in BoundaryValues : SegmentFactory(via, from, to)

RangesStep ==
  \/ \E r \in RangeIds, segs \in SegmentLists : ConstructRange(r, segs)
  \/ \E r \in RangeIds, seg \in Segments : UnionWithSeg(r, seg)
  \/ \E r \in RangeIds, seg \in Segments : IntersectWithSeg(r, seg)
  \/ \E r \in RangeIds : \E o \in RangeIds \ {r} : Union(r, o)
  \/ \E r \in RangeIds : \E o \in RangeIds \ {r} : Intersect(r, o)
  \/ \E r, o \in RangeIds : ComplementOf(r, o)
  \/ \E r, o, p \in RangeIds : Difference(r, o, p)
  \/ \E r \in RangeIds : \E o \in RangeIds \ {r} : IsSubsetOf(r, o)

\* ====================================================================
\* Recipe.clone and Recipe.mergeInto
\*
\* A second recipe, the target: the recipe that clone() returns and that
\* mergeInto(target) appends to. Its nodes are objects of their own, named
\* by numbers of their own; a clone map takes a node of the source to the
\* number of its copy, and a connection constraint or obligation, which
\* the model keeps by value, to the place of its copy in the target's list.

TargetParticleIds == 1..(2 * MaxParticles)
TargetHandleIds == 1..(2 * MaxHandles)
TargetSlotIds == 1..(2 * MaxSlots)

\* new Recipe(name), with room for the nodes of two recipes
NewTarget(name) ==
  [recipe |-> [NewRecipe EXCEPT !.name = name],
   particles |-> [p \in TargetParticleIds |-> NoParticleNode],
   handles |-> [x \in TargetHandleIds |-> NewHandleNode],
   slots |-> [s \in TargetSlotIds |-> NoSlotNode]]

\* The first n numbers of 1..max that name no object of used, in order.
RECURSIVE FreshIds(_, _, _)
FreshIds(used, n, max) ==
  IF n = 0 THEN <<>>
  ELSE LET i == FreshId(used, max)
       IN <<i>> \o FreshIds(used \cup {i}, n - 1, max)

\* cloneMap.set(object, clonedObject) for the objects of the list xs and
\* their copies ys.
MapOf(xs, ys) == [x \in Range(xs) |-> ys[IndexOf(xs, x)]]

\* The places n + 1, n + 2, ... of the copies of the k elements of a list
\* that are pushed onto a list of n elements.
PlacesAfter(n, k) == [i \in 1..k |-> n + i]

\* cloneMap.get(x) of a connection's handle or slot; an unbound connection
\* stays unbound.
CopyOf(map, x) == IF x = Null THEN Null ELSE map[x]

\* The source node that the map takes to the target node y.
SourceOf(map, y) == CHOOSE x \in DOMAIN map : map[x] = y

\* The body of Recipe._copyInto(recipe, cloneMap), obligations being the
\* list that this._obligations.forEach(cloneTheThing) goes through: the
\* target afterwards and the entries the clone map has got. The copy of a
\* node is what the node's own _copyInto makes: a new node of the target
\* with the fields of the source node, its connections bound to the copies.
copyEach(h, t, obligations) ==
  LET r == h.recipe
      tr == t.recipe
      handleMap == MapOf(r.handles, FreshIds(Range(tr.handles),
                                             Len(r.handles), 2 * MaxHandles))
      particleMap == MapOf(r.particles,
                           FreshIds(Range(tr.particles), Len(r.particles),
                                    2 * MaxParticles))
      slotMap == MapOf(r.slots, FreshIds(Range(tr.slots), Len(r.slots),
                                         2 * MaxSlots))
      copyOfParticle(p) ==
        [name |-> h.particles[p].name,
         connections |->
           [i \in 1..Len(h.particles[p].connections) |->
              [h.particles[p].connections[i] EXCEPT
                 !.particle = particleMap[p],
                 !.handle = CopyOf(handleMap, @)]],
         consumedSlotConnections |->
           [i \in 1..Len(h.particles[p].consumedSlotConnections) |->
              [h.particles[p].consumedSlotConnections[i] EXCEPT
                 !.particle = particleMap[p],
                 !.targetSlot = CopyOf(slotMap, @)]]]
  IN [heap |->
        [recipe |->
           [tr EXCEPT
              !.name = r.name,
              !.verbs = r.verbs,
              !.handles = @ \o [i \in 1..Len(r.handles) |->
                                  handleMap[r.handles[i]]],
              !.particles = @ \o [i \in 1..Len(r.particles) |->
                                    particleMap[r.particles[i]]],
              !.slots = @ \o [i \in 1..Len(r.slots) |-> slotMap[r.slots[i]]],
              !.connectionConstraints = @ \o r.connectionConstraints,
              !.obligations = @ \o obligations,
              !.search = IF r.search # NoSearch THEN r.search ELSE @,
              !.patterns = @ \o r.patterns],
         particles |->
           [q \in TargetParticleIds |->
              IF \E p \in DOMAIN particleMap : particleMap[p] = q
              THEN copyOfParticle(SourceOf(particleMap, q))
              ELSE t.particles[q]],
         handles |->
           [y \in TargetHandleIds |->
              IF \E x \in DOMAIN handleMap : handleMap[x] = y
              THEN h.handles[SourceOf(handleMap, y)]
              ELSE t.handles[y]],
         slots |->
           [z \in TargetSlotIds |->
              IF \E s \in DOMAIN slotMap : slotMap[s] = z
              THEN h.slots[SourceOf(slotMap, z)]
              ELSE t.slots[z]]],
      cloneMap |->
        [handles |-> handleMap, particles |-> particleMap, slots |-> slotMap,
         connectionConstraints |->
           PlacesAfter(Len(tr.connectionConstraints),
                       Len(r.connectionConstraints)),
         obligations |->
           PlacesAfter(Len(tr.obligations), Len(obligations))]]

\* Recipe._copyInto without the loop over the obligations.
copyIntoWithoutObligations(h, t) == copyEach(h, t, <<>>)

\* Recipe._copyInto(recipe, cloneMap)
copyInto(h, t) == copyEach(h, t, h.recipe.obligations)

\* Recipe.clone(): the recipe returned, and its clone map.
clone(h) == copyInto(h, NewTarget(h.recipe.name))

\* mergeInto that returns the lists of the target whole.
mergeIntoWhole(h, t) ==
  LET res == copyInto(h, t) IN
  [heap |-> res.heap, cloneMap |-> res.cloneMap,
   handles |-> res.heap.recipe.handles,
   particles |-> res.heap.recipe.particles,
   slots |-> res.heap.recipe.slots]

\* Recipe.mergeInto(recipe): the target afterwards and what is returned.
mergeInto(h, t) ==
  LET res == copyInto(h, t)
      after(field) == SubSeq(res.heap.recipe[field],
                             Len(t.recipe[field]) + 1,
                             Len(res.heap.recipe[field]))
  IN [heap |-> res.heap, cloneMap |-> res.cloneMap,
      handles |-> after("handles"),
      particles |-> after("particles"),
      slots |-> after("slots")]

\* ---- a recipe that is cloned and merged into its clone

VARIABLES
  target,   \* the recipe clone() has returned, with its nodes
  copied    \* the last call of clone or mergeInto and what it returned

copyVars == <<target, copied>>

NoTarget == [none |-> TRUE]

InitCopy ==
  /\ target = NoTarget
  /\ copied = [call |-> "none"]

\* recipe.name = name
SetName(name) == AssignTo("set name", "name", name)

\* target = recipe.clone()
Clone ==
  /\ target = NoTarget
  /\ target' = clone(heap).heap
  /\ copied' = [call |-> "clone", cloneMap |-> clone(heap).cloneMap]
  /\ UNCHANGED recipeVars

\* The target has room for copies of the nodes of h.
Room(h, t) ==
  /\ Len(t.recipe.particles) + Len(h.recipe.particles) <= 2 * MaxParticles
  /\ Len(t.recipe.handles) + Len(h.recipe.handles) <= 2 * MaxHandles
  /\ Len(t.recipe.slots) + Len(h.recipe.slots) <= 2 * MaxSlots
  /\ Len(t.recipe.connectionConstraints) + Len(h.recipe.connectionConstraints)
       <= 2 * MaxConstraints
  /\ Len(t.recipe.obligations) + Len(h.recipe.obligations)
       <= 2 * MaxConstraints
  /\ Len(t.recipe.patterns) + Len(h.recipe.patterns) <= 2

\* recipe.mergeInto(target)
MergeInto ==
  /\ target # NoTarget
  /\ Room(heap, target)
  /\ LET res == mergeInto(heap, target) IN
     /\ target' = res.heap
     /\ copied' = [call |-> "mergeInto", cloneMap |-> res.cloneMap,
                   handles |-> res.handles, particles |-> res.particles,
                   slots |-> res.slots]
  /\ UNCHANGED recipeVars

\* target.newParticle(name)
TargetNewParticle(name) ==
  /\ target # NoTarget
  /\ Len(target.recipe.particles) < 2 * MaxParticles
  /\ LET q == FreshId(Range(target.recipe.particles), 2 * MaxParticles) IN
     target' = [target EXCEPT
                  !.recipe.particles = Append(@, q),
                  !.particles[q] = NewParticleNode(name)]
  /\ copied' = [call |-> "newParticle"]
  /\ UNCHANGED recipeVars

\* target.verbs = verbs
TargetSetVerbs(verbs) ==
  /\ target # NoTarget
  /\ target' = [target EXCEPT !.recipe.verbs = verbs]
  /\ copied' = [call |-> "set verbs"]
  /\ UNCHANGED recipeVars

\* A recipe is built, perhaps normalized, and cloned; the clone is changed,
\* and the recipe is merged into it. The builder names the recipe, then
\* gives it verbs, a pattern, a search, a connection constraint and an
\* obligation, in this order, and may stop after any of them.
CopyStep ==
  \/ /\ target = NoTarget
     /\ UNCHANGED copyVars
     /\ \/ NewParticle(1)
        \/ NewHandle
        \/ NewSlot(1)
        \/ \E p \in ParticleIds, x \in HandleIds :
             ConnectToHandle(p, 1, x, FALSE, TRUE)
        \/ \E p \in ParticleIds, s \in SlotIds : ConsumeSlot(p, 1, s)
        \/ heap.recipe.name = Null /\ SetName(1)
        \/ /\ heap.recipe.name # Null
           /\ heap.recipe.verbs = <<>>
           /\ SetVerbs(<<1, 2>>)
        \/ /\ heap.recipe.verbs # <<>>
           /\ heap.recipe.patterns = <<>>
           /\ SetPatterns(<<1>>)
        \/ /\ heap.recipe.patterns # <<>>
           /\ heap.recipe.search = NoSearch
           /\ SetSearch([phrase |-> 1, unresolved |-> FALSE])
        \/ /\ heap.recipe.search # NoSearch
           /\ \E c \in Constraints :
                NewConnectionConstraint(c.from, c.to, c.direction)
        \/ /\ heap.recipe.connectionConstraints # <<>>
           /\ \E c \in Obligations : NewObligation(c.from, c.to, c.direction)
        \/ ~heap.recipe.frozen /\ Normalize(TRUE)
  \/ Clone
  \/ MergeInto
  \/ TargetNewParticle(2)
  \/ TargetSetVerbs(<<2, 1>>)

\* ====================================================================
\* Recipe._makeLocalNameMap
\*
\* A local name is written as a stem and a number: "particle" and 0 is
\* the string particle0, and the empty stem is a node without a local name
\* (undefined or the empty string).

Stems == [particles |-> "particle", handles |-> "handle", slots |-> "slot"]
NodeKinds == DOMAIN Stems

LocalName(stem, n) == [stem |-> stem, n |-> n]
NoLocalName == LocalName("", 0)

\* The local names a manifest gives: names of its own, and names that look
\* like the ones _makeLocalNameMap makes up.
LocalNames ==
  {LocalName("mine", 0), LocalName("particle", 0), LocalName("handle", 0),
   LocalName("slot", 0)}

VARIABLES
  localNames,   \* localNames[kind][x]: node.localName of the node x
  named         \* the last call of _makeLocalNameMap and its map

nameVars == <<localNames, named>>

InitNames ==
  /\ localNames = [particles |-> [p \in ParticleIds |-> NoLocalName],
                   handles |-> [x \in HandleIds |-> NoLocalName],
                   slots |-> [s \in SlotIds |-> NoLocalName]]
  /\ named = [call |-> "none", asked |-> 0]

\* The calls of _makeLocalNameMap made on a recipe between two changes.
MaxAsked == 2

\* The set names of _makeLocalNameMap: the localName of every node.
namesOf(h, ln) ==
  UNION {{ln[kind][x] : x \in Range(h.recipe[kind])} : kind \in NodeKinds}

\* localName = stem + i++, without the loop that skips the names in use
nextNameUnchecked(stem, i, names) == i

\* do { localName = stem + i++ } while (names.has(localName)): the number
\* of the name that is made up
nextName(stem, i, names) ==
  CHOOSE n \in i..(i + Cardinality(names)) :
    /\ LocalName(stem, n) \notin names
    /\ \A j \in i..(n - 1) : LocalName(stem, j) \in names

\* One of the three loops of _makeLocalNameMap over the nodes xs, i being
\* the counter: the names of the nodes in the order of the list.
RECURSIVE nameEach(_, _, _, _, _)
nameEach(xs, i, stem, names, ln) ==
  IF xs = <<>> THEN <<>>
  ELSE IF ln[Head(xs)] # NoLocalName
  THEN <<ln[Head(xs)]>> \o nameEach(Tail(xs), i, stem, names, ln)
  ELSE LET n == nextName(stem, i, names)
       IN <<LocalName(stem, n)>> \o nameEach(Tail(xs), n + 1, stem, names, ln)

\* recipe._makeLocalNameMap(): nameMap.get(node) by kind and node
makeLocalNameMap(h, ln) ==
  [kind \in NodeKinds |->
     MapOf(h.recipe[kind],
           nameEach(h.recipe[kind], 0, Stems[kind], namesOf(h, ln),
                    ln[kind]))]

\* node.localName = name
SetLocalName(kind, x, name) ==
  /\ x \in Range(heap.recipe[kind])
  /\ localNames[kind][x] = NoLocalName
  /\ localNames' = [localNames EXCEPT ![kind][x] = name]
  /\ named' = [call |-> "set localName", asked |-> 0]
  /\ UNCHANGED recipeVars

\* nameMap = recipe._makeLocalNameMap()
MakeLocalNameMap ==
  /\ named.asked < MaxAsked
  /\ named' = [call |-> "_makeLocalNameMap", asked |-> named.asked + 1,
               nameMap |-> makeLocalNameMap(heap, localNames)]
  /\ UNCHANGED <<recipeVars, localNames>>

\* A node is added to the recipe: the map asked for before is of the
\* recipe as it was.
Added ==
  /\ named' = [call |-> "add", asked |-> 0]
  /\ UNCHANGED localNames

\* Nodes are added to a recipe and given local names, and the recipe is
\* asked for its map of local names.
NamesStep ==
  \/ NewParticle(1) /\ Added
  \/ NewHandle /\ Added
  \/ NewSlot(1) /\ Added
  \/ \E kind \in NodeKinds, x \in 1..MaxParticles, name \in LocalNames :
       SetLocalName(kind, x, name)
  \/ MakeLocalNameMap

\* ====================================================================
\* Particle (src/runtime/ts/particle.ts): busy and idle
\*
\* A promise is named by its place in the list promises, which holds for
\* every promise whether it has been resolved. The particle's first _idle
\* is Promise.resolve().

MaxCalls == 4

VARIABLES
  _busy,          \* the counter of startBusy calls that are not yet done
  _idle,          \* the promise the idle getter returns
  _idleResolver,  \* the promise that _idleResolver resolves; 0 is undefined
  promises,       \* promises[p]: whether the promise p is resolved
  starts,         \* the startBusy calls made
  dones,          \* the doneBusy calls made
  outnumbered,    \* doneBusy has been called more often than startBusy
  obtained        \* a promise read from idle while busy, and whether the
                  \* counter has been back at 0 since

particleVars ==
  <<_busy, _idle, _idleResolver, promises, starts, dones, outnumbered,
    obtained>>

NotObtained == [promise |-> 0, backAtZero |-> FALSE]

\* The fields of a new Particle.
InitParticle ==
  /\ _busy = 0
  /\ _idle = 1
  /\ _idleResolver = 0
  /\ promises = <<TRUE>>
  /\ starts = 0
  /\ dones = 0
  /\ outnumbered = FALSE
  /\ obtained = NotObtained

\* get busy()
busy == _busy > 0

\* get idle()
idle == _idle

\* startBusy() that makes a new promise on every call.
startBusyAlwaysNew ==
  /\ promises' = Append(promises, FALSE)
  /\ _idle' = Len(promises) + 1
  /\ _idleResolver' = Len(promises) + 1
  /\ _busy' = _busy + 1

\* startBusy()
startBusy ==
  /\ IF _busy = 0
     THEN /\ promises' = Append(promises, FALSE)
          /\ _idle' = Len(promises) + 1
          /\ _idleResolver' = Len(promises) + 1
     ELSE UNCHANGED <<promises, _idle, _idleResolver>>
  /\ _busy' = _busy + 1

\* doneBusy(); resolving a promise that is resolved changes nothing.
doneBusy ==
  /\ _busy' = _busy - 1
  /\ promises' = IF _busy - 1 = 0
                 THEN [promises EXCEPT ![_idleResolver] = TRUE]
                 ELSE promises
  /\ UNCHANGED <<_idle, _idleResolver>>

\* particle.startBusy()
StartBusy ==
  /\ starts < MaxCalls
  /\ startBusy
  /\ starts' = starts + 1
  /\ UNCHANGED <<dones, outnumbered, obtained>>

\* particle.doneBusy(), also when no startBusy is open
DoneBusy ==
  /\ dones < MaxCalls
  /\ doneBusy
  /\ dones' = dones + 1
  /\ outnumbered' = (outnumbered \/ dones + 1 > starts)
  /\ obtained' = IF obtained # NotObtained /\ _busy' = 0
                 THEN [obtained EXCEPT !.backAtZero = TRUE]
                 ELSE obtained
  /\ UNCHANGED starts

\* A caller reads particle.idle while the particle is busy and keeps the
\* promise.
ObtainIdle ==
  /\ busy
  /\ obtained = NotObtained
  /\ obtained' = [promise |-> idle, backAtZero |-> FALSE]
  /\ UNCHANGED <<_busy, _idle, _idleResolver, promises, starts, dones,
                 outnumbered>>

ParticleStep == StartBusy \/ DoneBusy \/ ObtainIdle

\* ---------------------------------------------------------- specifications

\* The variables of the subsystems that follow the Range.
restVars == <<particleVars, copyVars, nameVars>>

vars == <<countVars, recipeVars, rmsVars, proxyVars, cloneVars, endpointVars,
          refineVars, rangesVars, restVars>>
others == <<cloneVars, endpointVars, refineVars, rangesVars, restVars>>

Init ==
  /\ InitCount
  /\ InitRecipe
  /\ InitRMS
  /\ InitProxy
  /\ InitClone
  /\ InitEndpoint
  /\ InitRefine
  /\ InitRanges
  /\ InitParticle
  /\ InitCopy
  /\ InitNames

\* One replica that is handed arbitrary operations.
NextApply ==
  /\ \E op \in Ops : Apply("X", op)
  /\ UNCHANGED <<kept, accepted, recipeVars, rmsVars, proxyVars, others>>

\* One replica, arbitrary operations, the accepted ones counted.
NextAccept ==
  /\ \E op \in Ops : Apply("X", op) /\ Accept("X", op)
  /\ UNCHANGED <<kept, recipeVars, rmsVars, proxyVars, others>>

\* Two replicas that build operations locally, merge and exchange deltas.
NextCount ==
  /\ \/ \E r \in Replicas, a \in Actors : Increment(r, a)
     \/ \E r \in Replicas, a \in Actors, v \in (0 - 1)..MaxValue :
          MultiIncrement(r, v, a)
     \/ Redeliver
     \/ \E r \in Replicas, s \in Replicas : r # s /\ Merge(r, s)
     \/ ApplyOtherChange
  /\ UNCHANGED <<accepted, recipeVars, rmsVars, proxyVars, others>>

NextRecipe == RecipeStep /\ UNCHANGED <<countVars, rmsVars, proxyVars, others>>

NextNormalize == NormalizeStep /\ UNCHANGED <<countVars, rmsVars, proxyVars, others>>
NextWiring == WiringStep /\ UNCHANGED <<countVars, rmsVars, proxyVars, others>>

NextHold == HoldStep /\ UNCHANGED <<countVars, recipeVars, proxyVars, others>>

NextSync ==
  SyncStep
    /\ UNCHANGED <<countVars, recipeVars, lastSent, superseded, others>>

NextSupersede ==
  /\ HoldStep
  /\ RecordSuperseded
  /\ UNCHANGED <<countVars, recipeVars, callbacks, lastSent, others>>

NextForward ==
  ForwardStep
    /\ UNCHANGED <<countVars, recipeVars, lastSent, superseded, others>>

NextIdle ==
  /\ IdleStep
  /\ RecordSent
  /\ UNCHANGED <<countVars, recipeVars, callbacks, superseded, others>>

NextClone ==
  /\ CloneStep
  /\ UNCHANGED <<countVars, recipeVars, rmsVars, proxyVars, endpointVars,
                 refineVars, rangesVars, restVars>>

NextEndpoint ==
  /\ EndpointStep
  /\ UNCHANGED <<countVars, recipeVars, rmsVars, proxyVars, cloneVars,
                 refineVars, rangesVars, restVars>>

NextNormalise ==
  /\ NormaliseStep
  /\ UNCHANGED <<countVars, recipeVars, rmsVars, proxyVars, cloneVars,
                 endpointVars, rangesVars, restVars>>

NextRange ==
  /\ RangeStep
  /\ UNCHANGED <<countVars, recipeVars, rmsVars, proxyVars, cloneVars,
                 endpointVars, rangesVars, restVars>>

NextSegment ==
  /\ SegmentStep
  /\ UNCHANGED <<countVars, recipeVars, rmsVars, proxyVars, cloneVars,
                 endpointVars, refineVars, restVars>>

NextRanges ==
  /\ RangesStep
  /\ UNCHANGED <<countVars, recipeVars, rmsVars, proxyVars, cloneVars,
                 endpointVars, refineVars, restVars>>

NextInterval ==
  /\ IntervalStep
  /\ UNCHANGED <<countVars, recipeVars, rmsVars, proxyVars, cloneVars,
                 endpointVars, refineVars, restVars>>

\* Everything but the variables of restVars.
beforeRest ==
  <<countVars, recipeVars, rmsVars, proxyVars, cloneVars, endpointVars,
    refineVars, rangesVars>>

NextParticle == ParticleStep /\ UNCHANGED <<beforeRest, copyVars, nameVars>>

NextCopy ==
  /\ CopyStep
  /\ UNCHANGED <<countVars, rmsVars, proxyVars, cloneVars, endpointVars,
                 refineVars, rangesVars, particleVars, nameVars>>

NextNames ==
  /\ NamesStep
  /\ UNCHANGED <<countVars, rmsVars, proxyVars, cloneVars, endpointVars,
                 refineVars, rangesVars, particleVars, copyVars>>

NextResend == ResendStep /\ UNCHANGED <<countVars, recipeVars, proxyVars, others>>

SpecApply == Init /\ [][NextApply]_vars

SpecAccept == Init /\ [][NextAccept]_vars

SpecCount == Init /\ [][NextCount]_vars

SpecRecipe == Init /\ [][NextRecipe]_vars

SpecNormalize == Init /\ [][NextNormalize]_vars
SpecWiring == Init /\ [][NextWiring]_vars

SpecHold == Init /\ [][NextHold]_vars

SpecSync == Init /\ [][NextSync]_vars

SpecIdle == Init /\ [][NextIdle]_vars

SpecForward == Init /\ [][NextForward]_vars

SpecSupersede == Init /\ [][NextSupersede]_vars

SpecClone == Init /\ [][NextClone]_vars

SpecEndpoint == Init /\ [][NextEndpoint]_vars

SpecNormalise == Init /\ [][NextNormalise]_vars

SpecRange == Init /\ [][NextRange]_vars

SpecSegment == Init /\ [][NextSegment]_vars

SpecRanges == Init /\ [][NextRanges]_vars

SpecInterval == Init /\ [][NextInterval]_vars

SpecParticle == Init /\ [][NextParticle]_vars

SpecCopy == Init /\ [][NextCopy]_vars

SpecNames == Init /\ [][NextNames]_vars

SpecResend == Init /\ [][NextResend]_vars

\* =================================================================== claims

\* C1: every ModelUpdate delivered to the proxy callback contains only entity
\* ids whose backing model is present with a version vector that dominates
\* the version vector of the Reference the container holds, whatever the
\* order in which container and backing data arrive.
C1_EmittedOnlyDereferenceable ==
  \A i \in 1..Len(emitted) :
    \A id \in DOMAIN emitted[i].model :
      /\ id \in DOMAIN backingModels
      /\ id \in DOMAIN containerModel
      /\ emitted[i].model[id].reference = containerModel[id]
      /\ VLeq(containerModel[id], backingModels[id])

\* A backing model arrived and released an update that refers to both ids.
C1_Witness ==
  /\ rmsLast.from = "backing"
  /\ Len(emitted) = 1
  /\ DOMAIN emitted[1].model = EntityIds
  /\ rmsLast.waited # {}

\* C2: while a Reference waits for a backing model that is missing or older
\* than the Reference no proxy callback fires; when the backing model of the
\* waiting id R arrives with a version vector that dominates the
\* Reference's, R's pending entry is removed, and if R was the only one
\* waiting exactly one ModelUpdate with the entity goes to the proxy; a
\* backing model that arrives when nothing waits fires no callback.
C2_HeldUntilBackingArrives ==
  [][/\ DOMAIN pending' # {} => emitted' = <<>>
     /\ rmsLast'.from = "backing" =>
          LET R == rmsLast'.id
              arrived == /\ R \in DOMAIN pending
                         /\ VLeq(pending[R], backingModels'[R])
          IN /\ arrived => R \notin DOMAIN pending'
             /\ (R \in DOMAIN pending /\ ~arrived) =>
                  (R \in DOMAIN pending' /\ emitted' = <<>>)
             /\ (arrived /\ DOMAIN pending = {R}) =>
                  /\ Len(emitted') = 1
                  /\ emitted'[1].type = "ModelUpdate"
                  /\ R \in DOMAIN emitted'[1].model
                  /\ emitted'[1].model[R].present
                  /\ emitted'[1].model[R].entity = backingModels'[R]
             /\ DOMAIN pending = {} => emitted' = <<>>]_vars

\* The only waiting Reference was released by the arrival of its entity.
C2_Witness ==
  /\ rmsLast.from = "backing"
  /\ rmsLast.waited = {rmsLast.id}
  /\ containerModel[rmsLast.id] = [me |-> 1, them |-> 0]
  /\ backingModels[rmsLast.id] # containerModel[rmsLast.id]
  /\ DOMAIN pending = {}
  /\ Len(emitted) = 1

\* C3: a write whose driver.send returned false stays pending; when data
\* of the driver is merged next, the store sends again, and what it sends
\* contains the local model with the write and the data received. A store
\* that is idle has handed the driver everything it holds.
C3_ResentAfterMerge ==
  [][/\ (rmsLast'.from = "proxy" /\ fail) =>
          /\ storeState' = "AwaitingDriverModel"
          /\ sentData' = <<containerModel'>>
     /\ (rmsLast'.from = "container" /\ storeState = "AwaitingDriverModel") =>
          /\ Len(sentData') = 1
          /\ RefsLeq(containerModel, sentData'[1])
          /\ RefsLeq(rmsLast'.data, sentData'[1])
          /\ fail \/ storeState' = "Idle"
     /\ storeState' = "Idle" => driverData' = containerModel']_vars

\* A failed write was sent again, merged with data of the other id.
C3_Witness ==
  /\ rmsLast.from = "container"
  /\ rmsLast.awaiting
  /\ storeState = "Idle"
  /\ Len(sentData) = 1
  /\ DOMAIN sentData[1] = EntityIds
  /\ DOMAIN rmsLast.data = {"another-id"}
  /\ driverData = sentData[1]


\* The replica and the operation of the applyOperation call that a step made.
AppliedIn(l) == l.kind = "apply"

\* from matches the version the model holds for the operation's actor.
Connects(m, op) == op.from = GetOr0(m.version, op.actor)

\* What an accepted operation adds.
Delta(op) == IF op.type = "MultiIncrement" THEN op.value ELSE 1

\* The model is m with op's delta added for op's actor and the version set.
Grown(m, op, m2) ==
  /\ GetOr0(m2.values, op.actor) = GetOr0(m.values, op.actor) + Delta(op)
  /\ GetOr0(m2.version, op.actor) = op.to
  /\ \A a \in Actors \ {op.actor} :
       /\ GetOr0(m2.values, a) = GetOr0(m.values, a)
       /\ GetOr0(m2.version, a) = GetOr0(m.version, a)

\* C4: whenever X.merge(Y) returns without throwing, applying otherChange in
\* order to Y gives Y the same values and version maps as X.
C4_DeltaMakesEqual ==
  (last.kind = "merge" /\ ~last.thrown) =>
     SameData(applyAll(count[last.other], last.otherChange).model,
              count[last.who])

\* C5 as stated: applyOperation returns true exactly when from equals the
\* actor's current version and to > from; an accepted operation adds its value
\* (or 1) and sets the version to to.
C5_AcceptsIffConnects ==
  [][AppliedIn(last') =>
       LET m == count[last'.who]
           op == last'.op
       IN /\ last'.ok <=> (Connects(m, op) /\ op.to > op.from)
          /\ last'.ok => Grown(m, op, count'[last'.who])]_vars

\* C5 amended: applyOperation returns true exactly when from equals the
\* actor's current version, to > from and, for a MultiIncrement, the value is
\* not negative; an accepted operation adds its value (or 1) and sets the
\* version to to.
C5_AcceptsIffConnectsAndNotNegative ==
  [][AppliedIn(last') =>
       LET m == count[last'.who]
           op == last'.op
       IN /\ last'.ok <=> /\ Connects(m, op)
                          /\ op.to > op.from
                          /\ op.type = "MultiIncrement" => op.value >= 0
          /\ last'.ok => Grown(m, op, count'[last'.who])]_vars

\* C5 witness: a MultiIncrement with a positive value was accepted on top of
\* an earlier operation of the same actor.
C5_Witness ==
  /\ last.kind = "apply" /\ last.ok
  /\ last.op.type = "MultiIncrement" /\ last.op.value > 0
  /\ last.op.from > 0

\* C6: a rejected operation returns false and leaves the values map and the
\* version map as they were.
C6_RejectedChangesNothing ==
  [][(AppliedIn(last') /\ ~last'.ok) => count' = count]_vars

\* C6 witness: an out-of-order operation was rejected by a model that
\* already holds a count.
C6_Witness ==
  /\ last.kind = "apply" /\ ~last.ok
  /\ count[last.who] # NewCount
  /\ ~Connects(count[last.who], last.op)

\* The two models hold different values for actor a and the one with the
\* larger value does not hold the strictly larger version.
DivergentAt(x, y, a) ==
  LET xv == GetOr0(x.values, a)
      yv == GetOr0(y.values, a)
      xn == GetOr0(x.version, a)
      yn == GetOr0(y.version, a)
  IN \/ xv > yv /\ ~(xn > yn)
     \/ yv > xv /\ ~(yn > xn)

\* C7: merge throws whenever, for some actor, the replicas hold different
\* values and the larger value does not come with the strictly larger version.
C7_DivergentMergeThrows ==
  [][last'.kind = "merge" =>
       ((\E a \in Actors : DivergentAt(count[last'.who], count[last'.other], a))
          => last'.thrown)]_vars

\* C7 witness: a merge threw where the versions of an actor were equal and
\* the values were not.
C7_Witness ==
  /\ last.kind = "merge" /\ last.thrown
  /\ \E a \in Actors :
       /\ GetOr0(count[last.who].version, a) = GetOr0(count[last.other].version, a)
       /\ GetOr0(count[last.who].values, a) # GetOr0(count[last.other].values, a)

\* C8: an operation a replica has accepted is rejected by that replica ever
\* after, and the rejection changes nothing.
C8_AcceptedOnceRejectedAfter ==
  kept # NoneKept =>
    LET res == applyOperation(count[kept.who], kept.op)
    IN ~res.ok /\ res.model = count[kept.who]

\* C8 witness: the remembered operation arrived again, after a merge changed
\* the replica, and was rejected.
C8_Witness ==
  /\ kept # NoneKept
  /\ last.kind = "apply" /\ last.who = kept.who /\ last.op = kept.op
  /\ ~last.ok
  /\ GetOr0(count[kept.who].version, kept.op.actor) > kept.op.to

\* C9 as stated: a MultiIncrement with value 0 whose from matches and whose
\* to > from is rejected and changes nothing.
C9_ZeroRejected ==
  [][(/\ AppliedIn(last')
      /\ last'.op.type = "MultiIncrement"
      /\ last'.op.value = 0
      /\ Connects(count[last'.who], last'.op)
      /\ last'.op.to > last'.op.from)
       => (~last'.ok /\ count' = count)]_vars

\* C9 amended: a MultiIncrement whose from matches and whose to > from is
\* rejected, changing nothing, when its value is negative; with value 0 it is
\* accepted: the version becomes to and the value stays.
C9_NegativeRejectedZeroAccepted ==
  [][(/\ AppliedIn(last')
      /\ last'.op.type = "MultiIncrement"
      /\ Connects(count[last'.who], last'.op)
      /\ last'.op.to > last'.op.from)
       => /\ last'.op.value < 0 => (~last'.ok /\ count' = count)
          /\ last'.op.value = 0 =>
               /\ last'.ok
               /\ Grown(count[last'.who], last'.op, count'[last'.who])]_vars

\* C9 witness: a MultiIncrement with a negative value was rejected although
\* its from matched and its to was larger.
C9_Witness ==
  /\ last.kind = "apply" /\ ~last.ok
  /\ last.op.type = "MultiIncrement" /\ last.op.value < 0
  /\ Connects(count[last.who], last.op)
  /\ last.op.to > last.op.from

\* C10: once normalize() has returned true the recipe is deeply immutable:
\* no later call of a Recipe mutator (newParticle, newHandle, newSlot,
\* removeParticle, removeHandle, removeSlot, newConnectionConstraint,
\* removeConstraint, clearConnectionConstraints, newObligation,
\* removeObligation, setSearchPhrase, the setters) changes its particles,
\* handles, slots, connection constraints, obligations, verbs, patterns or
\* search, and so what isResolved() returns cannot change either.
C10_FrozenRecipeNeverChanges ==
  [][heap.recipe.frozen =>
       /\ heap' = heap
       /\ isResolved(heap') = isResolved(heap)]_vars

\* The weaker half of C10 that the code keeps: the four arrays that
\* normalize() freezes, and the fields of the frozen recipe itself, stay.
C10_FrozenArraysNeverChange ==
  [][heap.recipe.frozen =>
       /\ \A f \in FrozenArrays \cup {"verbs", "patterns", "search"} :
            heap'.recipe[f] = heap.recipe[f]
       /\ heap'.recipe.frozen]_vars

\* C11: a normalize that returns true leaves the recipe frozen, a frozen
\* recipe stays frozen, and a normalize of a frozen recipe returns false,
\* writes 'already normalized' into the errors map when there is one, and
\* leaves particles, handles, slots, constraints, verbs and patterns in the
\* order they had.
C11_NormalizedAtMostOnce ==
  [][/\ (rlast'.call = "normalize" /\ rlast'.returned)
          => (~heap.recipe.frozen /\ heap'.recipe.frozen)
     /\ heap.recipe.frozen => heap'.recipe.frozen
     /\ (heap.recipe.frozen /\ rlast'.call = "normalize") =>
          /\ ~rlast'.returned
          /\ rlast'.errors =
               (IF rlast'.options THEN "already normalized" ELSE "")
          /\ heap'.recipe.particles = heap.recipe.particles
          /\ heap'.recipe.handles = heap.recipe.handles
          /\ heap'.recipe.slots = heap.recipe.slots
          /\ heap'.recipe.connectionConstraints =
               heap.recipe.connectionConstraints
          /\ heap'.recipe.verbs = heap.recipe.verbs
          /\ heap'.recipe.patterns = heap.recipe.patterns
          /\ heap'.particles = heap.particles]_vars

C11_Witness ==
  /\ rlast.call = "normalize"
  /\ ~rlast.returned
  /\ rlast.errors = "already normalized"
  /\ heap.recipe.frozen
  /\ Len(heap.recipe.particles) = MaxParticles
  /\ Len(heap.recipe.verbs) = MaxVerbs
  /\ Len(heap.recipe.connectionConstraints) > 0

C12_Invalid(h) ==
  \/ findDuplicate(h.recipe.handles, h.handles)
  \/ findDuplicate(h.recipe.slots, h.slots)
  \/ \E c \in Range(handleConnections(h)) : ~c.valid
  \/ h.recipe.search = EmptySearch

\* C12: normalize of an unfrozen recipe with a duplicate handle or slot id,
\* an invalid connection or an invalid search returns false, leaves the
\* recipe unfrozen, changes nothing in the recipe or its nodes, and writes
\* nothing when no errors map was supplied.
C12_InvalidLeavesRecipeAlone ==
  [][(~heap.recipe.frozen /\ C12_Invalid(heap) /\ rlast'.call = "normalize")
       => /\ ~rlast'.returned
          /\ ~heap'.recipe.frozen
          /\ heap' = heap
          /\ (~rlast'.options => rlast'.errors = "")]_vars

C12_Witness ==
  /\ rlast.call = "normalize"
  /\ ~rlast.returned
  /\ rlast.errors = "invalid"
  /\ ~heap.recipe.frozen
  /\ findDuplicate(heap.recipe.handles, heap.handles)
  /\ heap.recipe.verbs = <<2, 1>>

C13_AllResolved(h) ==
  /\ Len(h.recipe.obligations) = 0
  /\ Len(h.recipe.connectionConstraints) = 0
  /\ (h.recipe.search = NoSearch \/ ~h.recipe.search.unresolved)
  /\ \A x \in Range(h.recipe.handles) : h.handles[x].fate # "?"
  /\ \A p \in Range(h.recipe.particles) :
       /\ h.particles[p].name # Null
       /\ \A c \in Range(h.particles[p].connections) : c.handle # Null
       /\ \A c \in Range(h.particles[p].consumedSlotConnections) :
            c.targetSlot # Null

C14_SyncAnswersCallerOnly ==
  [][rmsLast'.from = "sync" =>
       \A j \in callbacks' :
         DeliveredTo(j, emitted') =
           IF j = rmsLast'.id
           THEN <<[type |-> "ModelUpdate",
                   model |-> Materialize(containerModel, backingModels)]>>
           ELSE <<>>]_vars

C14_Witness ==
  /\ rmsLast.from = "sync"
  /\ Cardinality(callbacks) = MaxCallbacks
  /\ DeliveredTo(rmsLast.id, emitted) # <<>>
  /\ DOMAIN emitted[1].model = EntityIds

C16_ReferenceCarriesWriteVersion ==
  [][rmsLast'.from = "proxy" =>
       LET R == rmsLast'.id
           n == IF R \in DOMAIN backingModels
                THEN backingModels[R][crdtKey] + 1 ELSE 1
           vv == [a \in StoreActors |-> IF a = crdtKey THEN n ELSE 0]
       IN /\ Len(sentData') = 1
          /\ R \in DOMAIN sentData'[1]
          /\ sentData'[1][R] = vv
          /\ sentData'[1] \in RefMaps
          /\ R \in DOMAIN backingModels'
          /\ backingModels'[R] = vv
          /\ \A x \in DOMAIN backingModels' \ {R} :
               x \in DOMAIN backingModels
               /\ backingModels'[x] = backingModels[x]]_vars

C16_Witness ==
  /\ rmsLast.from = "proxy"
  /\ Len(sentData) = 1
  /\ DOMAIN sentData[1] = EntityIds
  /\ sentData[1][rmsLast.id][crdtKey] = MaxClock
  /\ backingModels[rmsLast.id] = sentData[1][rmsLast.id]

C17_Within(d, e) ==
  \A a \in DOMAIN d.version :
    /\ Has(e.version, a)
    /\ d.version[a] <= e.version[a]

C19_NormaliseIdempotent ==
  [][(passes >= 1 /\ passes' = passes + 1) => refinement' = refinement]_vars

\* A normalised binary node both of whose children are field names.
RECURSIVE HasFieldPair(_)
HasFieldPair(e) ==
  CASE e.kind = "binary" ->
         \/ e.leftExpr.kind = "field" /\ e.rightExpr.kind = "field"
         \/ HasFieldPair(e.leftExpr)
         \/ HasFieldPair(e.rightExpr)
    [] e.kind = "unary" -> HasFieldPair(e.expr)
    [] OTHER -> FALSE

\* C19, what does hold: a second normalise() changes nothing unless the
\* normalised expression compares a field with a field.
C19_IdempotentWithoutFieldPair ==
  [][(passes >= 1 /\ passes' = passes + 1 /\ ~HasFieldPair(refinement))
       => refinement' = refinement]_vars

\* C19: a refinement that was rewritten by the first normalise() has been
\* normalised a second time.
C19_Witness ==
  /\ passes = 2
  /\ parsed # NoExpression
  /\ normalise(parsed) # parsed
  /\ ~HasFieldPair(refinement)

\* The refinement is a Boolean expression whose Range was derived both as
\* it was built and after normalise().
C20_BothDerived ==
  /\ parsed # NoExpression
  /\ evalType(parsed) = "Boolean"
  /\ rangeOfParsed # NoRange
  /\ rangeOfNormal # NoRange

\* C20 as stated: Range.fromExpression(normalise(e)) and
\* Range.fromExpression(e) give the same segment list, and one throws
\* exactly when the other does.
C20_SameRange ==
  C20_BothDerived =>
    /\ rangeOfNormal.threw = rangeOfParsed.threw
    /\ rangeOfNormal.segments = rangeOfParsed.segments

\* C20 amended: whenever Range.fromExpression(e) succeeds,
\* Range.fromExpression(normalise(e)) succeeds with the same segment list.
C20_SameRangeWhereDerivable ==
  (C20_BothDerived /\ ~rangeOfParsed.threw) =>
    /\ ~rangeOfNormal.threw
    /\ rangeOfNormal.segments = rangeOfParsed.segments

\* C20: normalise() rewrote an expression whose Range could be derived as
\* it was built, and the Range was derived again.
C20_Witness ==
  /\ C20_BothDerived
  /\ ~rangeOfParsed.threw
  /\ rangeOfParsed.segments # <<>>
  /\ refinement # parsed

\* C20: an expression whose Range can only be derived after normalise().
C20_DerivableOnlyNormalised ==
  /\ C20_BothDerived
  /\ rangeOfParsed.threw
  /\ ~rangeOfNormal.threw

\* C21: every Range holds a segment list that is strictly ordered and
\* pairwise disjoint, as Range.validateSegments demands, after its
\* construction and after every operation.
C21_SegmentsOrdered ==
  \A r \in RangeIds :
    /\ validateSegments(ranges[r].segments)
    /\ \A i, j \in 1..Len(ranges[r].segments) :
         i < j => ~overlapsWith(ranges[r].segments[i], ranges[r].segments[j])

\* C21: no operation on a Range throws.
C21_NeverThrows == ~rangesLast.threw

\* C21: a Range of three segments is the result of a difference.
C21_Witness ==
  /\ rangesLast.op = "difference"
  /\ \E r \in RangeIds : Len(ranges[r].segments) >= 3

\* The refinement (x >= a) and (x < b)
C22_Interval(a, b) ==
  BinaryExpression(
    "and",
    BinaryExpression(">=", FieldNamePrimitive("x", "Number"), NumberPrimitive(a)),
    BinaryExpression("<", FieldNamePrimitive("x", "Number"), NumberPrimitive(b)))

\* C22: for constants a < b the Range derived from (x >= a) and (x < b) is
\* the single segment [a,b), and the complement of that Range is the two
\* segments (-inf,a) and [b,+inf).
C22_IntervalAndComplement ==
  [][\A a, b \in 1..MaxNumber :
       a < b =>
         /\ (/\ rangesLast'.op = "fromExpression"
             /\ rangesLast'.args = <<C22_Interval(a, b)>>)
              => /\ ~rangesLast'.threw
                 /\ ranges'[rangesLast'.r].segments = <<closedOpen(a, b)>>
         /\ (/\ rangesLast.op = "fromExpression"
             /\ rangesLast.args = <<C22_Interval(a, b)>>
             /\ rangesLast'.op = "complementOf"
             /\ rangesLast'.args = <<rangesLast.r>>)
              => /\ ~rangesLast'.threw
                 /\ ranges'[rangesLast'.r].segments =
                      <<openOpen(NEGATIVE_INFINITY, a),
                        closedOpen(b, POSITIVE_INFINITY)>>]_vars

\* C22: the Range of (x >= a) and (x < b) has been derived and complemented
\* into the other Range.
C22_Witness ==
  /\ rangesLast.op = "complementOf"
  /\ rangesLast.args # <<rangesLast.r>>
  /\ \E a, b \in 1..MaxNumber :
       /\ a < b
       /\ ranges[rangesLast.args[1]].segments = <<closedOpen(a, b)>>
  /\ Len(ranges[rangesLast.r].segments) = 2

\* The two models hold values of disjoint sets of actors.
C23_Disjoint(x, y) == (DOMAIN x.values) \cap (DOMAIN y.values) = {}

\* The list holds exactly one operation per actor of m, the
\* MultiIncrement of m's value from 0 to m's version.
C23_OnePerActor(ops, m) ==
  /\ Len(ops) = Cardinality(DOMAIN m.values)
  /\ \A a \in DOMAIN m.values :
       \E i \in 1..Len(ops) :
         ops[i] = newMultiIncrement(m.values[a], a, 0, m.version[a])

\* C23: when X and Y hold counts from disjoint sets of actors, X.merge(Y)
\* does not throw, X's particle view becomes the sum of the two views,
\* modelChange holds one MultiIncrement(from 0, to Y's version, Y's value) per
\* actor of Y and otherChange one per actor of X, and after otherChange is
\* applied to Y both particle views are equal.
C23_DisjointMerge ==
  [][(last'.kind = "merge" /\ C23_Disjoint(count[last'.who], count[last'.other]))
       => LET x == count[last'.who]
              y == count[last'.other]
          IN /\ ~last'.thrown
             /\ getParticleView(count'[last'.who])
                  = getParticleView(x) + getParticleView(y)
             /\ C23_OnePerActor(last'.modelChange, y)
             /\ C23_OnePerActor(last'.otherChange, x)
             /\ getParticleView(applyAll(y, last'.otherChange).model)
                  = getParticleView(count'[last'.who])]_vars

\* C23, what holds: the same with modelChange holding one operation per
\* actor of Y whose value is not 0.
C23_DisjointMergeOfPositive ==
  [][(last'.kind = "merge" /\ C23_Disjoint(count[last'.who], count[last'.other]))
       => LET x == count[last'.who]
              y == count[last'.other]
              positive == {a \in DOMAIN y.values : y.values[a] > 0}
          IN /\ ~last'.thrown
             /\ getParticleView(count'[last'.who])
                  = getParticleView(x) + getParticleView(y)
             /\ Len(last'.modelChange) = Cardinality(positive)
             /\ \A a \in positive :
                  \E i \in 1..Len(last'.modelChange) :
                    last'.modelChange[i]
                      = newMultiIncrement(y.values[a], a, 0, y.version[a])
             /\ C23_OnePerActor(last'.otherChange, x)
             /\ getParticleView(applyAll(y, last'.otherChange).model)
                  = getParticleView(count'[last'.who])]_vars

\* C24: merge is commutative: X.merge(Y) throws exactly when Y.merge(X),
\* started from the same two replicas, throws, and when neither throws X
\* holds after X.merge(Y) the data that Y holds after Y.merge(X).
C24_MergeCommutes ==
  [][last'.kind = "merge" =>
       LET back == merge(count[last'.other], count[last'.who])
       IN /\ last'.thrown = back.thrown
          /\ ~last'.thrown => SameData(count'[last'.who], back.model)]_vars

\* C24, what holds: the two merges throw together, and when neither throws
\* they leave the same value for every actor (a missing value being 0).
C24_MergeCommutesOnValues ==
  [][last'.kind = "merge" =>
       LET back == merge(count[last'.other], count[last'.who])
       IN /\ last'.thrown = back.thrown
          /\ ~last'.thrown =>
               \A a \in Actors :
                 GetOr0(count'[last'.who].values, a) = GetOr0(back.model.values, a)]_vars

\* C25: in a replica reached by applying operations, the version recorded
\* for an actor is at least the number of operations of that actor that the
\* replica has accepted.
C25_VersionCountsOperations ==
  \A a \in Actors : GetOr0(count["X"].version, a) >= accepted[a]

\* C25: a replica has accepted two operations of one actor and one
\* operation of another actor that skipped a version.
C25_Witness ==
  \E a, b \in Actors :
    /\ accepted[a] >= 2
    /\ accepted[b] = 1
    /\ GetOr0(count["X"].version, b) > 1

\* The operation that takes back what op added: a MultiIncrement of the
\* negated amount that follows op in the actor's versions.
C26_Inverse(op) ==
  newMultiIncrement(0 - Delta(op), op.actor, op.to, op.to + 1)

\* An accepted operation is followed by the application of its inverse.
C26_InverseApplied ==
  /\ AppliedIn(last) /\ last.ok
  /\ AppliedIn(last') /\ last'.who = last.who
  /\ last'.op = C26_Inverse(last.op)

\* C26 as stated: after an accepted operation and its inverse the actor's
\* value and the particle view are what they were before the operation, and
\* the actor's version has increased.
C26_InverseRestoresValue ==
  [][C26_InverseApplied =>
       LET a == last.op.actor
           m == count[last.who]
           m2 == count'[last.who]
       IN /\ GetOr0(m2.values, a) = GetOr0(m.values, a) - Delta(last.op)
          /\ getParticleView(m2) = getParticleView(m) - Delta(last.op)
          /\ GetOr0(m2.version, a) > last.op.from]_vars

\* C26 amended: the inverse of an accepted operation that added a positive
\* amount is rejected and changes nothing, so the value stays increased; the
\* inverse of a MultiIncrement of 0 is accepted and raises the version only.
C26_InverseRejected ==
  [][C26_InverseApplied =>
       IF Delta(last.op) > 0
       THEN ~last'.ok /\ count' = count
       ELSE /\ last'.ok
            /\ count'[last.who].values = count[last.who].values
            /\ GetOr0(count'[last.who].version, last.op.actor) = last'.op.to]_vars

\* C26: the inverse of an operation that the replica holds was applied and
\* rejected.
C26_Witness ==
  /\ AppliedIn(last) /\ ~last.ok
  /\ last.op.type = "MultiIncrement" /\ last.op.value < 0
  /\ last.op.from > 0
  /\ Connects(count[last.who], last.op)
  /\ last.op.to = last.op.from + 1
  /\ GetOr0(count[last.who].values, last.op.actor) >= 0 - last.op.value

\* C27: a CRDTCount starts empty with particle view 0, and no call of
\* applyOperation or merge, whatever it returns or throws, lowers an actor's
\* value, an actor's version or the particle view.
C27_GrowsMonotonically ==
  /\ \A r \in Replicas :
       count[r] = NewCount /\ getParticleView(count[r]) = 0
  /\ [][\A r \in Replicas :
         /\ \A a \in Actors :
              /\ GetOr0(count'[r].values, a) >= GetOr0(count[r].values, a)
              /\ GetOr0(count'[r].version, a) >= GetOr0(count[r].version, a)
         /\ DOMAIN count[r].values \subseteq DOMAIN count'[r].values
         /\ getParticleView(count'[r]) >= getParticleView(count[r])]_vars

\* C27: a merge has thrown after it had adopted the count of an actor.
C27_Witness ==
  /\ last.kind = "merge" /\ last.thrown
  /\ last.modelChange # <<>>
  /\ getParticleView(count[last.who]) > 1

\* C28: the construction of a Segment throws exactly when the upper value
\* is below the lower value, or the values are equal and a boundary is open.
C28_ThrowsIffInvalid ==
  made.via # "none" =>
    (made.threw <=>
       \/ made.to.val < made.from.val
       \/ /\ made.to.val = made.from.val
          /\ made.from.kind = "open" \/ made.to.kind = "open")

\* C28: the construction of a half-open segment of zero width has thrown.
C28_Witness ==
  /\ made.via # "none"
  /\ made.threw
  /\ made.from.val = made.to.val
  /\ made.from.kind # made.to.kind

\* ------------------------------------------- the order normalize() gives

\* The orders in which the nodes of the list s can have been added.
Orders(s) == {t \in [1..Len(s) -> Range(s)] : Range(t) = Range(s)}

\* The recipes that hold the nodes and connections of h, with the nodes
\* added in another order.
Reorderings(h) ==
  {[h EXCEPT !.recipe.particles = ps, !.recipe.handles = xs,
             !.recipe.slots = ss] :
     ps \in Orders(h.recipe.particles), xs \in Orders(h.recipe.handles),
     ss \in Orders(h.recipe.slots)}

\* Recipe.toString(): the handles, the slots and the particles in the order
\* of the recipe's lists; _makeLocalNameMap() names a node by its place in
\* its list, and a connection is printed with the name of its handle or
\* slot.
toString(h) ==
  LET r == h.recipe
      particleString(node) ==
        [name |-> node.name,
         connections |->
           [i \in 1..Len(node.connections) |->
              [name |-> node.connections[i].name,
               handle |-> IndexOf(r.handles, node.connections[i].handle),
               isInterface |-> node.connections[i].isInterface]],
         consumedSlotConnections |->
           [i \in 1..Len(node.consumedSlotConnections) |->
              [name |-> node.consumedSlotConnections[i].name,
               targetSlot |->
                 IndexOf(r.slots, node.consumedSlotConnections[i].targetSlot)]]]
  IN [verbs |-> r.verbs,
      handles |-> [i \in 1..Len(r.handles) |-> h.handles[r.handles[i]]],
      slots |-> [i \in 1..Len(r.slots) |-> h.slots[r.slots[i]]],
      particles |-> [i \in 1..Len(r.particles) |->
                       particleString(h.particles[r.particles[i]])]]

\* The recipe is valid and not yet normalized.
Normalizable(h) == ~h.recipe.frozen /\ isValid(h)

\* No two particles of the recipe compare equal.
ParticlesCompareUnequal(h) ==
  \A i, j \in 1..Len(h.recipe.particles) :
    i # j => ParticleKey(h)[h.recipe.particles[i]]
               # ParticleKey(h)[h.recipe.particles[j]]

C29_CanonicalWhenParticlesDiffer ==
  (Normalizable(heap) /\ ParticlesCompareUnequal(heap)) =>
    \A other \in Reorderings(heap) :
      toString(normalize(other).heap) = toString(normalize(heap).heap)

\* Two particles of different names, connected to different handles, that
\* normalize() has to put in order.
C29_Witness ==
  /\ Normalizable(heap)
  /\ ParticlesCompareUnequal(heap)
  /\ Len(heap.recipe.particles) = 2
  /\ Len(heap.recipe.handles) = 2
  /\ \A p \in Range(heap.recipe.particles) :
       Len(heap.particles[p].connections) = 1
  /\ normalize(heap).heap.recipe.particles # heap.recipe.particles
  /\ normalize(heap).heap.recipe.handles # heap.recipe.handles

\* The least of the numbers key[c] of the connections c of the set S.
LeastKey(S, key) ==
  CHOOSE k \in {key[c] : c \in S} : \A c \in S : k <= key[c]

\* Where a node with the handle connections S belongs: among the nodes
\* with a connection that is not interface-typed, among those whose
\* connections are all interface-typed, or among those without any.
Appearance(S) ==
  IF \E c \in S : ~c.isInterface THEN 1 ELSE IF S # {} THEN 2 ELSE 3

\* The connections by which a node with the connections S is first met.
FirstMetBy(S) ==
  IF Appearance(S) = 1 THEN {c \in S : ~c.isInterface} ELSE S

\* The list of nodes follows the rule: nodes come in the order in which
\* the sorted connections, the interface-typed ones last, first meet them,
\* and the nodes no connection meets follow in the order of nodeKey.
FollowsFirstAppearance(list, connectionsOf, key, nodeKey) ==
  \A i, j \in 1..Len(list) :
    i < j =>
      LET a == connectionsOf[list[i]]
          b == connectionsOf[list[j]]
      IN /\ Appearance(a) <= Appearance(b)
         /\ (Appearance(a) = Appearance(b) /\ a # {}) =>
              LeastKey(FirstMetBy(a), key) <= LeastKey(FirstMetBy(b), key)
         /\ (a = {} /\ b = {}) => nodeKey[list[i]] <= nodeKey[list[j]]

\* particle.connections and handle.connections of the nodes of the recipe.
ParticleConnections(h) ==
  [p \in ParticleIds |-> Range(h.particles[p].connections)]
HandleConnections(h) == [x \in HandleIds |-> ConnectionsOf(h, x)]

\* C30: after normalize() the particles are in the order of their first
\* appearance in the sorted list of handle connections in which the
\* connections that are not interface-typed come before the interface-typed
\* ones, and the particles without a handle connection follow in the order
\* of compareComparables; so a particle whose connections are all
\* interface-typed comes after every particle that has a connection that is
\* not.  The handles are ordered by the same rule.
C30_OrderedByFirstAppearance ==
  (rlast.call = "normalize" /\ rlast.returned) =>
    LET cs == handleConnections(heap)
        key == ConnectionKey(heap, cs)
    IN /\ FollowsFirstAppearance(heap.recipe.particles,
                                 ParticleConnections(heap), key,
                                 ParticleKey(heap))
       /\ FollowsFirstAppearance(heap.recipe.handles,
                                 HandleConnections(heap), key,
                                 HandleKey(heap))

\* A normalized recipe in which a particle that compares less, with an
\* interface-typed connection only, follows a particle with a connection
\* that is not interface-typed, and so do their handles.
C30_Witness ==
  /\ rlast.call = "normalize"
  /\ rlast.returned
  /\ Len(heap.recipe.particles) = 2
  /\ Len(heap.recipe.handles) = 2
  /\ LET p == heap.recipe.particles[1]
         q == heap.recipe.particles[2]
     IN /\ ParticleKey(heap)[q] < ParticleKey(heap)[p]
        /\ Appearance(ParticleConnections(heap)[p]) = 1
        /\ Appearance(ParticleConnections(heap)[q]) = 2
  /\ LET x == heap.recipe.handles[1]
         y == heap.recipe.handles[2]
     IN /\ HandleKey(heap)[y] < HandleKey(heap)[x]
        /\ Appearance(HandleConnections(heap)[x]) = 1
        /\ Appearance(HandleConnections(heap)[y]) = 2

\* ------------------------------------------------ merge and its failure

\* C38: merge is atomic on failure and never touches its argument: when
\* X.merge(Y) throws, X holds the values and versions it held before the
\* call, and Y's data are the same after every call, thrown or not.
C38_MergeAtomicOnFailure ==
  [][last'.kind = "merge" =>
       /\ count'[last'.other] = count[last'.other]
       /\ (last'.thrown => count'[last'.who] = count[last'.who])]_vars

\* The half about the argument: no merge changes the other replica.
C38_ArgumentUnchanged ==
  [][last'.kind = "merge" => count'[last'.other] = count[last'.other]]_vars

\* A merge that threw after it had adopted an entry of the other replica.
C38_ThrewHalfway ==
  /\ last.kind = "merge"
  /\ last.thrown
  /\ last.modelChange # <<>>

\* ------------------------------------------- the nodes normalize() keeps

\* The list after holds the elements of the list before, each of them once.
Reordered(before, after) ==
  /\ Range(after) = Range(before)
  /\ Len(after) = Len(before)
  /\ Cardinality(Range(after)) = Len(after)

Points == UNION {{2 * v - 1, 2 * v, 2 * v + 1} : v \in BoundaryValues}

\* The number pt lies in the segment: above from, or on it when from is
\* closed, and below to, or on it when to is closed.
InSegment(seg, pt) ==
  /\ 2 * seg.from.val < pt \/ (2 * seg.from.val = pt /\ seg.from.kind = "closed")
  /\ pt < 2 * seg.to.val \/ (pt = 2 * seg.to.val /\ seg.to.kind = "closed")

\* The number pt lies in a segment of the Range.
InRange(range, pt) ==
  \E i \in 1..Len(range.segments) : InSegment(range.segments[i], pt)

\* C36: a.isSubsetOf(b) returns true if and only if every number contained
\* in a is contained in b, open and closed boundaries respected, and the
\* call leaves a and b as they were.
C36_SubsetIffContained ==
  [][rangesLast'.op = "isSubsetOf" =>
       /\ ranges' = ranges
       /\ rangesLast'.returned
            = (\A pt \in Points :
                 InRange(ranges[rangesLast'.r], pt)
                   => InRange(ranges[rangesLast'.args[1]], pt))]_vars

\* isSubsetOf has answered true for a Range of two segments, and in
\* another state false for Ranges that differ in one boundary's kind only.
C36_Witness ==
  /\ rangesLast.op = "isSubsetOf"
  /\ rangesLast.returned
  /\ Len(ranges[rangesLast.r].segments) = 2
  /\ ranges[rangesLast.r] # ranges[rangesLast.args[1]]

C36_WitnessOfFalse ==
  /\ rangesLast.op = "isSubsetOf"
  /\ ~rangesLast.returned
  /\ Len(ranges[rangesLast.r].segments) = 1
  /\ Len(ranges[rangesLast.args[1]].segments) = 1
  /\ LET a == ranges[rangesLast.r].segments[1]
         b == ranges[rangesLast.args[1]].segments[1]
     IN a.from = b.from /\ a.to.val = b.to.val /\ a.to.kind = "closed"

\* ----------------------------------------- the meaning of a refinement

\* The values the field x is given.
FieldValues == 0..(MaxNumber + 1)

\* refinement.validateData(data): the Boolean the expression evaluates to;
\* an expression of another type throws.
validateData(e, data) ==
  IF evalType(e) # "Boolean" THEN [threw |-> TRUE, returned |-> FALSE]
  ELSE [threw |-> FALSE, returned |-> applyOperator(e, data)]

\* A subtraction with the field on its right, which normalise() swaps.
RECURSIVE SubtractsField(_)
SubtractsField(e) ==
  IF e.kind = "binary"
  THEN \/ e.op = "-" /\ e.rightExpr.kind = "field"
       \/ SubtractsField(e.leftExpr)
       \/ SubtractsField(e.rightExpr)
  ELSE IF e.kind = "unary" THEN SubtractsField(e.expr)
  ELSE FALSE

\* The refinement has been normalised, and it was a Boolean expression.
Normalised == passes > 0 /\ evalType(parsed) = "Boolean"

\* C37: normalisation preserves meaning: for every well-typed Boolean
\* expression e and every value of its field, validateData on normalise(e)
\* returns the Boolean that validateData on e returns, also where a
\* constant stands on the left of a subtraction, as in (c - f) < d.
C37_NormalisePreservesMeaning ==
  Normalised =>
    \A v \in FieldValues :
      validateData(refinement, [x |-> v]) = validateData(parsed, [x |-> v])

\* The same, of the expressions without a subtraction from which the
\* field is subtracted.
C37_PreservedWithoutFieldSubtracted ==
  (Normalised /\ ~SubtractsField(parsed)) =>
    \A v \in FieldValues :
      validateData(refinement, [x |-> v]) = validateData(parsed, [x |-> v])

\* A comparison with the field on the right has been normalised to one
\* with the field on the left.
C37_Witness ==
  /\ Normalised
  /\ ~SubtractsField(parsed)
  /\ parsed.kind = "binary"
  /\ parsed.op = "<"
  /\ parsed.rightExpr.kind = "field"
  /\ refinement.kind = "binary"
  /\ refinement.op = ">"
  /\ refinement.leftExpr.kind = "field"

\* --------------------------------------------------- busy and idle

\* C40: in every sequence of startBusy and doneBusy calls in which doneBusy
\* never outnumbers startBusy, busy is true exactly while more startBusy
\* than doneBusy calls have been made; the idle promise obtained while busy
\* is unresolved until the counter is back at 0 and resolved from then on;
\* and while the particle is not busy the current idle promise is resolved.
C40_BusyAndIdle ==
  ~outnumbered =>
    /\ busy <=> starts > dones
    /\ obtained # NotObtained =>
         (promises[obtained.promise] <=> obtained.backAtZero)
    /\ ~busy => promises[idle]

\* The promise obtained while busy has been resolved by the last of two
\* nested doneBusy calls, and the particle is busy again with a new
\* promise that is unresolved.
C40_Witness ==
  /\ ~outnumbered
  /\ obtained # NotObtained
  /\ obtained.backAtZero
  /\ promises[obtained.promise]
  /\ dones >= 2
  /\ busy
  /\ idle # obtained.promise
  /\ ~promises[idle]

\* ------------------------------------------------- clone and mergeInto

\* The map takes the nodes of the list from, each to a node of its own,
\* onto the nodes of the list to.
OneCopyEach(map, from, to) ==
  /\ DOMAIN map = Range(from)
  /\ \A x, y \in DOMAIN map : map[x] = map[y] => x = y
  /\ {map[x] : x \in DOMAIN map} = Range(to)
  /\ Len(to) = Len(from)

\* The particle of t that is the copy of the particle p of h has the
\* fields of p, its connections bound to the copies of p's handles and
\* slots.
IsCopyOfParticle(h, p, t, q, map) ==
  LET a == h.particles[p]
      b == t.particles[q]
  IN /\ b.name = a.name
     /\ Len(b.connections) = Len(a.connections)
     /\ \A i \in 1..Len(a.connections) :
          /\ b.connections[i].name = a.connections[i].name
          /\ b.connections[i].particle = q
          /\ b.connections[i].handle
               = CopyOf(map.handles, a.connections[i].handle)
     /\ Len(b.consumedSlotConnections) = Len(a.consumedSlotConnections)
     /\ \A i \in 1..Len(a.consumedSlotConnections) :
          /\ b.consumedSlotConnections[i].particle = q
          /\ b.consumedSlotConnections[i].targetSlot
               = CopyOf(map.slots, a.consumedSlotConnections[i].targetSlot)

AppendedSlice(slice, map, from, before, after) ==
  /\ after = before \o slice
  /\ slice = [i \in 1..Len(from) |-> map[from[i]]]
  /\ Range(slice) \cap Range(before) = {}

\* What mergeInto appends and returns, and what it leaves alone but for
\* the verbs.
C33_Appended ==
  LET r == heap.recipe
      t == target.recipe
      u == target'.recipe
      map == copied'.cloneMap
  IN /\ AppendedSlice(copied'.handles, map.handles, r.handles,
                      t.handles, u.handles)
     /\ AppendedSlice(copied'.particles, map.particles, r.particles,
                      t.particles, u.particles)
     /\ AppendedSlice(copied'.slots, map.slots, r.slots, t.slots, u.slots)
     /\ \A x \in Range(t.handles) : target'.handles[x] = target.handles[x]
     /\ \A p \in Range(t.particles) :
          target'.particles[p] = target.particles[p]
     /\ \A s \in Range(t.slots) : target'.slots[s] = target.slots[s]
     /\ Range(t.patterns) \subseteq Range(u.patterns)
     /\ heap' = heap

\* C33: source.mergeInto(target) appends copies of the source's nodes to
\* the target and returns slices of handles, particles and slots that hold
\* exactly the nodes this call appended, in order; the handles, particles,
\* slots, verbs and patterns the target held before the call are all still
\* there afterwards, and the source is unchanged.
C33_MergeAppendsAndKeeps ==
  [][copied'.call = "mergeInto" =>
       /\ C33_Appended
       /\ Range(target.recipe.verbs) \subseteq Range(target'.recipe.verbs)]_vars

\* The same without the verbs, which become the verbs of the source.
C33_MergeAppendsAndKeepsButVerbs ==
  [][copied'.call = "mergeInto" =>
       /\ C33_Appended
       /\ target'.recipe.verbs = heap.recipe.verbs]_vars

\* A merge into a target that held a particle of its own and verbs of its
\* own has returned slices with a particle, a handle and a slot.
C33_Witness ==
  /\ copied.call = "mergeInto"
  /\ copied.particles # <<>>
  /\ copied.handles # <<>>
  /\ copied.slots # <<>>
  /\ Len(target.recipe.particles) > 2 * Len(copied.particles)
  /\ target.recipe.verbs = <<1, 2>>

\* ------------------------------------------------- the local names

\* The nodes of the recipe, by kind and number.
NodesOf(h) ==
  UNION {{<<kind, x>> : x \in Range(h.recipe[kind])} : kind \in NodeKinds}

\* The node has no local name of its own, so its name is made up.
MadeUp(node) == localNames[node[1]][node[2]] = NoLocalName

\* C31: _makeLocalNameMap gives every particle, handle and slot a name: a
\* node with a localName keeps it, a node without one gets a name made of
\* particle, handle or slot and a number, and no name that is made up
\* equals a localName of the recipe or another name that is made up; the
\* map is the same on every call for an unchanged recipe.
C31_LocalNameMap ==
  /\ [](named.call = "_makeLocalNameMap" =>
       LET nameOf(node) == named.nameMap[node[1]][node[2]] IN
       /\ \A kind \in NodeKinds :
            DOMAIN named.nameMap[kind] = Range(heap.recipe[kind])
       /\ \A node \in NodesOf(heap) :
            IF MadeUp(node)
            THEN /\ nameOf(node).stem = Stems[node[1]]
                 /\ \A other \in NodesOf(heap) \ {node} :
                      /\ nameOf(node) # localNames[other[1]][other[2]]
                      /\ nameOf(node) # nameOf(other)
            ELSE nameOf(node) = localNames[node[1]][node[2]])
  /\ [][(named.call = "_makeLocalNameMap"
           /\ named'.call = "_makeLocalNameMap")
          => named'.nameMap = named.nameMap]_vars

\* A map for a recipe in which one particle is called particle0 and
\* another has no local name, and a handle is called handle0 and another
\* has no local name.
C31_Witness ==
  /\ named.call = "_makeLocalNameMap"
  /\ named.asked = 2
  /\ \E p, q \in Range(heap.recipe.particles) :
       /\ localNames.particles[p] = LocalName("particle", 0)
       /\ localNames.particles[q] = NoLocalName
       /\ named.nameMap.particles[q] = LocalName("particle", 1)
  /\ \E x, y \in Range(heap.recipe.handles) :
       /\ localNames.handles[x] = LocalName("handle", 0)
       /\ localNames.handles[y] = NoLocalName

\* ------------------------------------------------- Operations sent on

\* C34: an Operations message that a proxy with id i sends to the store
\* is, once applied, sent on to every other registered callback and is
\* not sent back to the callback registered under i.
C34_ForwardedToOthersOnly ==
  [][rmsLast'.from = "operations" =>
       \A j \in callbacks' :
         ForwardedTo(j, emitted') =
           IF j = rmsLast'.id THEN <<>>
           ELSE <<(<<rmsLast'.entity>>)>>]_vars

\* Operations of a registered proxy while another callback is registered.
C34_Witness ==
  /\ rmsLast.from = "operations"
  /\ rmsLast.id \in callbacks
  /\ \E j \in callbacks \ {rmsLast.id} : ForwardedTo(j, emitted) # <<>>

\* Operations under an id that no callback is registered under, as the
\* test sends them: every callback is called.
C34_WitnessOfStranger ==
  /\ rmsLast.from = "operations"
  /\ rmsLast.id \notin callbacks
  /\ callbacks # {}
  /\ \A j \in callbacks : ForwardedTo(j, emitted) # <<>>

\* ------------------------------------------------- a later Reference

\* C35: while the Reference to an id waits for its entity, a later update
\* of the container for that id puts the newer Reference in the place of
\* the one that waits and the entry keeps waiting; the proxy is told only
\* once the backing model has reached the version vector of the newer
\* Reference, never because it has reached that of the one replaced.
C35_NewerReferenceAwaited ==
  [][/\ \A id \in DOMAIN pending :
          (id \in DOMAIN containerModel
             /\ containerModel'[id] # containerModel[id])
          => /\ id \in DOMAIN pending'
             /\ pending'[id] = containerModel'[id]
             /\ emitted' = <<>>
     /\ emitted' # <<>> =>
          \A id \in DOMAIN pending :
            /\ id \notin DOMAIN pending'
            /\ Dereferenceable(containerModel'[id], backingModels', id)
            /\ \A old \in superseded'[id] : VLeq(old, containerModel'[id])
    ]_vars

\* The entity has arrived with the version of a Reference that was
\* replaced, the newer Reference still waits and the proxy was not told.
C35_Witness ==
  /\ rmsLast.from = "backing"
  /\ emitted = <<>>
  /\ \E id \in DOMAIN pending :
       /\ rmsLast.id = id
       /\ \E old \in superseded[id] :
            /\ Dereferenceable(old, backingModels, id)
            /\ ~Dereferenceable(pending[id], backingModels, id)

\* The proxy is told of an id whose Reference was replaced while it waited.
C35_WitnessOfNotice ==
  /\ rmsLast.from = "backing"
  /\ emitted # <<>>
  /\ superseded[rmsLast.id] # {}
  /\ rmsLast.id \in rmsLast.waited

====
